---- MODULE Spec2Model ----
(***************************************************************************)
(* A model of nst, a SOCKS5 proxy quality tester.                          *)
(*                                                                         *)
(*   SpecTcp    the TCP-stability probe (src/src/tests/tcp_stability.rs):  *)
(*              TcpStabilityTest::run_stability_test as a state machine    *)
(*              over a clock counted in seconds.                           *)
(*   SpecSocks  the SOCKS5 client (src/src/socks5.rs): one call of         *)
(*              Socks5Client::connect or Socks5Client::udp_associate       *)
(*              against a proxy that may answer anything.                  *)
(*   SpecUdp    the UDP relay (src/src/socks5.rs): send_to, the relay's    *)
(*              answer, recv_from.                                         *)
(*   SpecAddr   Socks5Client::parse_address on one address string.         *)
(*   SpecBw     the bandwidth probe (src/src/tests/bandwidth.rs) over a    *)
(*              clock counted in tenths of a second.                       *)
(*   SpecPerf   the connection-perf probe                                  *)
(*              (src/src/tests/connection_perf.rs): the sequential phase,  *)
(*              the concurrency levels and the report.                     *)
(*   SpecDns    the DNS probe (src/src/tests/dns_stability.rs) over a      *)
(*              clock counted in milliseconds.                             *)
(*   SpecStat   the statistics of the jitter and connection-perf probes:   *)
(*              jitter, median, percentiles, average, min and max.         *)
(*   SpecJit    the jitter probe (src/src/tests/network_jitter.rs) over a  *)
(*              clock counted in milliseconds.                             *)
(*   SpecMetrics  the metrics collector and the overall score              *)
(*              (src/src/metrics.rs), in f64 arithmetic.                   *)
(*   SpecMain   the command line program (src/src/main.rs): the parallel   *)
(*              instances of a probe and the phases of `all`.              *)
(*   SpecEcho   the TCP-stability echo server                              *)
(*              (src/src/server/tcp_stability_server.rs), one connection.  *)
(*   SpecCpServer  the connection-perf server                              *)
(*              (src/src/server/connection_perf_server.rs), one            *)
(*              connection.                                                *)
(*   SpecTcpLive  SpecTcp with the scheduling of the probe's task, for     *)
(*              termination.                                               *)
(*                                                                         *)
(* Strings are sequences of ASCII codes, so that as_bytes(), len() and the *)
(* address parsers are computed as the code computes them.                 *)
(***************************************************************************)
EXTENDS Integers, Sequences, FiniteSets, TLC

VARIABLES
    \* ---- TCP-stability probe: configuration (TcpStabilityTest fields)
    heartbeat_interval, test_duration,
    \* ---- the proxy the probe runs against
    proxy,
    \* ---- locals of run_stability_test
    now, end_time, result, stream, connection_broken,
    last_connection_attempt, connection_start, heartbeat_start,
    heartbeat_result, pc,
    \* ---- what an observer of the probe sees
    sent, connects, connect_result, connected_at, success_at,
    \* ---- SOCKS5 client: configuration (Socks5Client fields, the call)
    username, password, command, target_addr,
    \* ---- one call of connect / udp_associate
    spc, written, method_response, auth_response, reply, bnd, bnd_read,
    socks_result,
    \* ---- SOCKS5 UDP relay: send_to's arguments, the datagram built, the
    \* ---- datagram in the socket, what send_to and recv_from returned
    udp_data, udp_target, upc, packet, inbox, send_result, recv_result,
    \* ---- parse_address: the host and the port text the address was written
    \* ---- from, whether a colon joins them, the address, what was returned
    addr_host, addr_port, addr_colon, address, apc, parsed,
    \* ---- bandwidth probe: configuration (BandwidthTest fields), the clock
    \* ---- in units of 100 ms, locals of run_bandwidth_test and of
    \* ---- perform_data_transfer, what the function returned
    chunk_size, bw_duration, bw_now, bw_end_time, bw_pc, bw_result,
    response_buffer, bytes_read, bw_return,
    \* ---- what an observer of the bandwidth probe sees: CONNECT attempts,
    \* ---- the tunnel `stream` holds, tunnels open, writes per tunnel
    bw_connects, bw_stream, bw_open, bw_written,
    \* ---- how the last write or read of perform_data_transfer ended
    bw_io,
    \* ---- connection-perf probe: configuration, the proxy, position,
    \* ---- run_sequential_test's results and loop index, the attempts begun
    \* ---- and in flight, run_concurrent_tests' level, tasks and rows, the
    \* ---- result, and what print_results derives from it
    total_connections, cp_proxy, cp_pc, sequential_results, cp_i,
    cp_started, cp_in_flight, level_index, tasks, concurrent_results,
    cp_result, best_concurrent, concurrent_score,
    \* ---- DNS probe: configuration, the clock (ms), the locals of
    \* ---- run_dns_test, the query in progress, the calls of udp_associate,
    \* ---- the domains queried so far with their outcomes, and the result
    domains, query_interval, dns_duration, dns_now, dns_end_time, next_tick,
    dns_pc, domain_index, total_queries, successful_queries, failed_queries,
    timeout_queries, domain_results, all_query_times, dns_domain,
    query_start, udp_associate_calls, dns_log, dns_result,
    \* ---- statistics: a sample set (Durations, in ns), position, and what
    \* ---- the probes compute from it
    samples, st_pc, st_jitter, st_median, st_p95, st_p99, st_summary,
    \* ---- jitter probe: configuration (NetworkJitterTest fields), the clock
    \* ---- in ms, locals of run_jitter_test, of perform_ping and of
    \* ---- tcp_ping_via_proxy (jit_stream is 0 or the number of the tunnel
    \* ---- `stream` holds), the calls of client.connect, the tunnels open,
    \* ---- one record per ping returned, what run_jitter_test returned
    targets, ping_interval, jit_duration, jit_now, jit_end_time,
    jit_next_tick, jit_pc, target_index, total_pings, successful_pings,
    failed_pings, timeout_pings, all_rtt_samples, target_results,
    jit_target, ping_start, jit_stream, jit_connects, jit_open, jit_log,
    jit_result,
    \* ---- metrics: the fields of Metrics that hold a probe's metrics (None
    \* ---- or its score), the overall score, the collector's position
    tcp_stability, bandwidth, connection_perf, dns_stability, network_jitter,
    overall_score, ms_pc,
    \* ---- main: the command, --parallel, --config, the position, the
    \* ---- number of the run_*_test_parallel call in hand, its instances,
    \* ---- the finished instances not yet joined (in the order they
    \* ---- finished), one record per call returned, the exit code (-1
    \* ---- while the process runs)
    rt_command, rt_parallel, rt_config, rt_pc, rt_phase, join_set, rt_done,
    rt_log, exit_code,
    \* ---- TCP-stability echo server: the lines the client sends, whether it
    \* ---- closes after them, handle_client's position, the lines read, the
    \* ---- replies written, whether the server holds the connection, one
    \* ---- record per line read or loop exit
    es_lines, es_client_closes, es_pc, es_read, es_written, es_open, es_log,
    \* ---- connection-perf server: what the client does and sends,
    \* ---- handle_client's position, the message it read, the bytes it
    \* ---- wrote, whether it holds the connection, what it returned
    cs_client, cs_sent, cs_pc, cs_message, cs_written, cs_open, cs_return

tcpVars == <<heartbeat_interval, test_duration, proxy, now, end_time, result,
             stream, connection_broken, last_connection_attempt,
             connection_start, heartbeat_start, heartbeat_result, pc,
             sent, connects, connect_result, connected_at, success_at>>

socksVars == <<username, password, command, target_addr, spc, written,
               method_response, auth_response, reply, bnd, bnd_read,
               socks_result>>

udpVars == <<udp_data, udp_target, upc, packet, inbox, send_result,
             recv_result>>

addrVars == <<addr_host, addr_port, addr_colon, address, apc, parsed>>

bwVars == <<chunk_size, bw_duration, bw_now, bw_end_time, bw_pc, bw_result,
            response_buffer, bytes_read, bw_return, bw_connects, bw_stream,
            bw_open, bw_written, bw_io>>

cpVars == <<total_connections, cp_proxy, cp_pc, sequential_results, cp_i,
            cp_started, cp_in_flight, level_index, tasks, concurrent_results,
            cp_result, best_concurrent, concurrent_score>>

dnsVars == <<domains, query_interval, dns_duration, dns_now, dns_end_time,
             next_tick, dns_pc, domain_index, total_queries,
             successful_queries, failed_queries, timeout_queries,
             domain_results, all_query_times, dns_domain, query_start,
             udp_associate_calls, dns_log, dns_result>>

statVars == <<samples, st_pc, st_jitter, st_median, st_p95, st_p99, st_summary>>

jitVars == <<targets, ping_interval, jit_duration, jit_now, jit_end_time,
             jit_next_tick, jit_pc, target_index, total_pings,
             successful_pings, failed_pings, timeout_pings, all_rtt_samples,
             target_results, jit_target, ping_start, jit_stream, jit_connects,
             jit_open, jit_log, jit_result>>

msVars == <<tcp_stability, bandwidth, connection_perf, dns_stability, network_jitter, overall_score, ms_pc>>

rtVars == <<rt_command, rt_parallel, rt_config, rt_pc, rt_phase, join_set, rt_done, rt_log, exit_code>>

esVars == <<es_lines, es_client_closes, es_pc, es_read, es_written, es_open, es_log>>

csVars == <<cs_client, cs_sent, cs_pc, cs_message, cs_written, cs_open, cs_return>>

vars == <<tcpVars, socksVars, udpVars, addrVars, bwVars, cpVars, dnsVars,
          statVars, jitVars, msVars, rtVars, esVars, csVars>>

\* What the actions of one component leave alone.
nonTcpVars == <<socksVars, udpVars, addrVars, bwVars, cpVars, dnsVars, statVars, jitVars, msVars, rtVars, esVars, csVars>>

nonSocksVars == <<tcpVars, udpVars, addrVars, bwVars, cpVars, dnsVars, statVars, jitVars, msVars, rtVars, esVars, csVars>>

nonUdpVars == <<tcpVars, socksVars, addrVars, bwVars, cpVars, dnsVars, statVars, jitVars, msVars, rtVars, esVars, csVars>>

nonAddrVars == <<tcpVars, socksVars, udpVars, bwVars, cpVars, dnsVars, statVars, jitVars, msVars, rtVars, esVars, csVars>>

nonBwVars == <<tcpVars, socksVars, udpVars, addrVars, cpVars, dnsVars, statVars, jitVars, msVars, rtVars, esVars, csVars>>

nonCpVars == <<tcpVars, socksVars, udpVars, addrVars, bwVars, dnsVars, statVars, jitVars, msVars, rtVars, esVars, csVars>>

nonDnsVars == <<tcpVars, socksVars, udpVars, addrVars, bwVars, cpVars, statVars, jitVars, msVars, rtVars, esVars, csVars>>

nonStatVars == <<tcpVars, socksVars, udpVars, addrVars, bwVars, cpVars, dnsVars, jitVars, msVars, rtVars, esVars, csVars>>

nonJitVars == <<tcpVars, socksVars, udpVars, addrVars, bwVars, cpVars, dnsVars, statVars, msVars, rtVars, esVars, csVars>>

nonMsVars == <<tcpVars, socksVars, udpVars, addrVars, bwVars, cpVars, dnsVars, statVars, jitVars, rtVars, esVars, csVars>>

nonRtVars == <<tcpVars, socksVars, udpVars, addrVars, bwVars, cpVars, dnsVars, statVars, jitVars, msVars, esVars, csVars>>

nonEsVars == <<tcpVars, socksVars, udpVars, addrVars, bwVars, cpVars, dnsVars, statVars, jitVars, msVars, rtVars, csVars>>

nonCsVars == <<tcpVars, socksVars, udpVars, addrVars, bwVars, cpVars, dnsVars, statVars, jitVars, msVars, rtVars, esVars>>

(***************************************************************************)
(* Bounds of the model.                                                    *)
(***************************************************************************)
\* No run sends more heartbeats than this (a run with interval 0 would send
\* without end inside one second of the clock).
MaxHeartbeats == 10
\* A network exchange that ends (a heartbeat answered or refused, a CONNECT
\* accepted or refused) takes 0..MaxElapsed seconds of the clock.
MaxElapsed == 1

(***************************************************************************)
(* Program constants.                                                      *)
(***************************************************************************)
\* timeout(Duration::from_secs(5), self.send_heartbeat(..))
HeartbeatTimeout == 5
\* sleep(Duration::from_secs(1)) after a failed reconnect
ReconnectDelay == 1

\* No Instant has been read into the variable yet.
NoInstant == 0 - 1

(***************************************************************************)
(* The proxy.  A chaotic proxy may make every exchange succeed, fail or    *)
(* stall; a scheduled proxy answers at once, drops every tunnel at dropAt  *)
(* and refuses CONNECTs during [dropAt, dropAt + downFor).                 *)
(***************************************************************************)
Chaos == [chaos |-> TRUE, dropAt |-> NoInstant, downFor |-> 0]

Outage(at, len) == [chaos |-> FALSE, dropAt |-> at, downFor |-> len]

\* Scenario S3 of the specification: 300 s run, 30 s interval, the tunnel is
\* dropped at t = 90 s and CONNECT is accepted again 2 s later.
S3 == [heartbeat_interval |-> 30, test_duration |-> 300, proxy |-> Outage(90, 2)]

TcpConfigs ==
    { [heartbeat_interval |-> c[1], test_duration |-> c[2], proxy |-> Chaos] :
        c \in {<<0, 1>>, <<1, 8>>, <<3, 9>>} }
    \cup {S3}

ProxyDown(t) ==
    /\ ~proxy.chaos
    /\ proxy.dropAt # NoInstant
    /\ proxy.dropAt <= t
    /\ t < proxy.dropAt + proxy.downFor

TunnelDropped(t) ==
    /\ ~proxy.chaos
    /\ proxy.dropAt # NoInstant
    /\ connected_at < proxy.dropAt
    /\ proxy.dropAt <= t

\* What client.connect(&self.target_addr).await may do at time t.  "hang":
\* only the TCP connect to the proxy is under Socks5Client's timeout; the
\* reads of the SOCKS5 replies wait for ever on a silent proxy.
ConnectOutcomes(t) ==
    IF proxy.chaos THEN {"Ok", "Err", "hang"}
    ELSE IF ProxyDown(t) THEN {"Err"} ELSE {"Ok"}

\* What timeout(5 s, send_heartbeat(..)).await may do at time t:
\* Ok(Ok(_)), Ok(Err(e)) (write error, read error, read of 0 bytes), or
\* Err(_) (the deadline passed).
HeartbeatOutcomes(t) ==
    IF proxy.chaos THEN {"Ok(Ok)", "Ok(Err)", "Err(Elapsed)"}
    ELSE IF TunnelDropped(t) THEN {"Ok(Err)"} ELSE {"Ok(Ok)"}

Elapsed == IF proxy.chaos THEN 0..MaxElapsed ELSE {0}

(***************************************************************************)
(* TcpStabilityTest::run_stability_test                                    *)
(***************************************************************************)
ZeroResult ==
    [ total_heartbeats      |-> 0,
      successful_heartbeats |-> 0,
      failed_heartbeats     |-> 0,
      reconnections         |-> 0,
      total_downtime        |-> 0,
      connection_drops      |-> <<>> ]

TcpInit ==
    /\ \E c \in TcpConfigs :
        /\ heartbeat_interval = c.heartbeat_interval
        /\ test_duration = c.test_duration
        /\ proxy = c.proxy
        /\ end_time = c.test_duration
    /\ now = 0
    /\ result = ZeroResult
    /\ stream = FALSE
    /\ connection_broken = FALSE
    /\ last_connection_attempt = 0
    /\ connection_start = NoInstant
    /\ heartbeat_start = NoInstant
    /\ heartbeat_result = "none"
    /\ pc = "initial_connect"
    /\ sent = <<>>
    /\ connects = 0
    /\ connect_result = "none"
    /\ connected_at = NoInstant
    /\ success_at = NoInstant

\* Lines 85-95: the initial connection.
InitialConnectOk ==
    /\ pc = "initial_connect"
    /\ "Ok" \in ConnectOutcomes(now)
    /\ \E d \in Elapsed :
        /\ now' = now + d
        /\ connected_at' = now + d
    /\ stream' = TRUE
    /\ connects' = connects + 1
    /\ connect_result' = "Ok"
    /\ pc' = "loop"
    /\ UNCHANGED <<heartbeat_interval, test_duration, proxy, end_time, result,
                   connection_broken, last_connection_attempt,
                   connection_start, heartbeat_start, heartbeat_result,
                   sent, success_at, nonTcpVars>>

\* A variant of lines 92-94 that treats the failure as a dropped connection
\* and goes on to the loop.
InitialConnectErrAsDrop ==
    /\ now' \in {now + d : d \in Elapsed}
    /\ connects' = connects + 1
    /\ connect_result' = "Err"
    /\ connection_broken' = TRUE
    /\ pc' = "loop"
    /\ UNCHANGED <<heartbeat_interval, test_duration, proxy, end_time, result,
                   stream, last_connection_attempt,
                   connection_start, heartbeat_start, heartbeat_result,
                   sent, connected_at, success_at, nonTcpVars>>

InitialConnectErrBody ==
    /\ now' \in {now + d : d \in Elapsed}
    /\ connects' = connects + 1
    /\ connect_result' = "Err"
    /\ pc' = "fatal"
    /\ UNCHANGED <<heartbeat_interval, test_duration, proxy, end_time, result,
                   stream, connection_broken, last_connection_attempt,
                   connection_start, heartbeat_start, heartbeat_result,
                   sent, connected_at, success_at, nonTcpVars>>

InitialConnectErr ==
    /\ pc = "initial_connect"
    /\ "Err" \in ConnectOutcomes(now)
    /\ InitialConnectErrBody

ConnectHang ==
    /\ pc \in {"initial_connect", "reconnecting"}
    /\ "hang" \in ConnectOutcomes(now)
    /\ connects' = IF pc = "initial_connect" THEN connects + 1 ELSE connects
    /\ connect_result' = "hang"
    /\ pc' = "hung"
    /\ UNCHANGED <<heartbeat_interval, test_duration, proxy, now, end_time,
                   result, stream, connection_broken,
                   last_connection_attempt, connection_start,
                   heartbeat_start, heartbeat_result, sent, connected_at,
                   success_at, nonTcpVars>>

\* Lines 97-100: the loop test and the reconnect branch's start.
ReconnectStart ==
    /\ pc = "loop"
    /\ now < end_time
    /\ ~stream /\ connection_broken
    /\ connection_start' = now
    /\ connects' = connects + 1
    /\ connect_result' = "pending"
    /\ pc' = "reconnecting"
    /\ UNCHANGED <<heartbeat_interval, test_duration, proxy, now, end_time,
                   result, stream, connection_broken,
                   last_connection_attempt, heartbeat_start,
                   heartbeat_result, sent, connected_at, success_at, nonTcpVars>>

\* Lines 106-111: the drop's duration and its record.
Downtime == connection_start - last_connection_attempt

DropRecord == [timestamp |-> last_connection_attempt, duration |-> Downtime]

\* Lines 103-117.
ReconnectOkBody ==
    /\ stream' = TRUE
    /\ result' = [result EXCEPT
                    !.reconnections = @ + 1,
                    !.total_downtime = @ + Downtime,
                    !.connection_drops = Append(@, DropRecord)]
    /\ connection_broken' = FALSE
    /\ pc' = "heartbeat"

ReconnectOk ==
    /\ pc = "reconnecting"
    /\ "Ok" \in ConnectOutcomes(now)
    /\ \E d \in Elapsed :
        /\ now' = now + d
        /\ connected_at' = now + d
    /\ connect_result' = "Ok"
    /\ ReconnectOkBody
    /\ UNCHANGED <<heartbeat_interval, test_duration, proxy, end_time,
                   last_connection_attempt, connection_start,
                   heartbeat_start, heartbeat_result, sent, connects,
                   success_at, nonTcpVars>>

\* A variant of lines 118-122 that gives the reconnecting up.
ReconnectErrForgets ==
    /\ UNCHANGED <<result, stream>>
    /\ connection_broken' = FALSE
    /\ pc' = "loop"

\* Lines 118-122: warn, sleep 1 s, continue.
ReconnectErrBody ==
    /\ UNCHANGED <<result, stream, connection_broken>>
    /\ pc' = "loop"

ReconnectErr ==
    /\ pc = "reconnecting"
    /\ "Err" \in ConnectOutcomes(now)
    /\ now' \in {now + d + ReconnectDelay : d \in Elapsed}
    /\ connect_result' = "Err"
    /\ ReconnectErrBody
    /\ UNCHANGED <<heartbeat_interval, test_duration, proxy, end_time,
                   last_connection_attempt, connection_start,
                   heartbeat_start, heartbeat_result, sent, connects,
                   connected_at, success_at, nonTcpVars>>

\* A variant of line 130 that numbers by the heartbeats answered so far.
HeartbeatNumberBySuccess == result.successful_heartbeats + 1

\* Line 130: the n of "PING-<n>\n".
HeartbeatNumber == result.total_heartbeats + 1

\* Lines 126-135: the heartbeat is numbered and sent.  It is reached from the
\* loop test with a tunnel in hand, or right after a successful reconnect.
HeartbeatSend ==
    /\ \/ pc = "loop" /\ now < end_time /\ stream
       \/ pc = "heartbeat"
    /\ result.total_heartbeats < MaxHeartbeats
    /\ heartbeat_start' = now
    /\ result' = [result EXCEPT !.total_heartbeats = @ + 1]
    /\ sent' = Append(sent, HeartbeatNumber)
    /\ pc' = "await_heartbeat"
    /\ UNCHANGED <<heartbeat_interval, test_duration, proxy, now, end_time,
                   stream, connection_broken, last_connection_attempt,
                   connection_start, heartbeat_result, connects, connect_result,
                   connected_at, success_at, nonTcpVars>>

\* Lines 138-151.
HeartbeatOk ==
    /\ pc = "await_heartbeat"
    /\ "Ok(Ok)" \in HeartbeatOutcomes(now)
    /\ \E rtt \in Elapsed :
        /\ now' = now + rtt
        /\ success_at' = now + rtt
    /\ heartbeat_result' = "Ok(Ok)"
    /\ result' = [result EXCEPT !.successful_heartbeats = @ + 1]
    /\ pc' = "sleep"
    /\ UNCHANGED <<heartbeat_interval, test_duration, proxy, end_time, stream,
                   connection_broken, last_connection_attempt,
                   connection_start, heartbeat_start, sent, connects, connect_result,
                   connected_at, nonTcpVars>>

\* Lines 153-157: the Ok(Err(e)) arm; t is Instant::now() of line 157.
HeartbeatErrBody(t) ==
    /\ result' = [result EXCEPT !.failed_heartbeats = @ + 1]
    /\ stream' = FALSE
    /\ connection_broken' = TRUE
    /\ last_connection_attempt' = t

\* A variant of lines 160-164 that keeps the tunnel ("may be broken").
HeartbeatTimedOutKeepsTunnel(t) ==
    /\ result' = [result EXCEPT !.failed_heartbeats = @ + 1]
    /\ UNCHANGED stream
    /\ connection_broken' = TRUE
    /\ last_connection_attempt' = t

\* A variant of lines 160-164 that does not count the timeout as a failure.
HeartbeatTimedOutUncounted(t) ==
    /\ UNCHANGED result
    /\ stream' = FALSE
    /\ connection_broken' = TRUE
    /\ last_connection_attempt' = t

\* Lines 160-164: the Err(_) arm; t is Instant::now() of line 164.
HeartbeatTimedOutBody(t) ==
    /\ result' = [result EXCEPT !.failed_heartbeats = @ + 1]
    /\ stream' = FALSE
    /\ connection_broken' = TRUE
    /\ last_connection_attempt' = t

\* Lines 152-158: Ok(Err(e)).
HeartbeatErr ==
    /\ pc = "await_heartbeat"
    /\ "Ok(Err)" \in HeartbeatOutcomes(now)
    /\ \E d \in Elapsed :
        /\ now' = now + d
        /\ HeartbeatErrBody(now + d)
    /\ heartbeat_result' = "Ok(Err)"
    /\ pc' = "sleep"
    /\ UNCHANGED <<heartbeat_interval, test_duration, proxy, end_time,
                   connection_start, heartbeat_start, sent, connects, connect_result,
                   connected_at, success_at, nonTcpVars>>

\* Lines 159-165: Err(_), the 5 s deadline passed.
HeartbeatTimedOut ==
    /\ pc = "await_heartbeat"
    /\ "Err(Elapsed)" \in HeartbeatOutcomes(now)
    /\ now' = now + HeartbeatTimeout
    /\ HeartbeatTimedOutBody(now + HeartbeatTimeout)
    /\ heartbeat_result' = "Err(Elapsed)"
    /\ pc' = "sleep"
    /\ UNCHANGED <<heartbeat_interval, test_duration, proxy, end_time,
                   connection_start, heartbeat_start, sent, connects, connect_result,
                   connected_at, success_at, nonTcpVars>>

\* Line 169.
Sleep ==
    /\ pc = "sleep"
    /\ now' = now + heartbeat_interval
    /\ pc' = "loop"
    /\ UNCHANGED <<heartbeat_interval, test_duration, proxy, end_time, result,
                   stream, connection_broken, last_connection_attempt,
                   connection_start, heartbeat_start, heartbeat_result,
                   sent, connects, connect_result, connected_at, success_at, nonTcpVars>>

\* Lines 97 and 172-180: the deadline has passed, the result is returned.
LoopExit ==
    /\ pc = "loop"
    /\ ~(now < end_time)
    /\ pc' = "done"
    /\ UNCHANGED <<heartbeat_interval, test_duration, proxy, now, end_time,
                   result, stream, connection_broken,
                   last_connection_attempt, connection_start,
                   heartbeat_start, heartbeat_result, sent, connects, connect_result,
                   connected_at, success_at, nonTcpVars>>

TcpNext ==
    \/ InitialConnectOk
    \/ InitialConnectErr
    \/ ConnectHang
    \/ ReconnectStart
    \/ ReconnectOk
    \/ ReconnectErr
    \/ HeartbeatSend
    \/ HeartbeatOk
    \/ HeartbeatErr
    \/ HeartbeatTimedOut
    \/ Sleep
    \/ LoopExit

(***************************************************************************)
(* Strings and the standard library's parsers.                             *)
(* A string is the sequence of its bytes (ASCII codes).                    *)
(***************************************************************************)
\* ':' of addr.rsplitn(2, ':')
Colon == 58

\* An Option<String>.
None == [is_some |-> FALSE, v |-> <<>>]

Some(str) == [is_some |-> TRUE, v |-> str]

Fail == [ok |-> FALSE, pos |-> 0, val |-> 0]

\* The element of a one-element set: its argument is computed once, where a
\* LET definition is computed again at each use.
Only(set) == CHOOSE x \in set : TRUE

\* char::to_digit(radix): the digit's value, or -1.
ToDigit(c, radix) ==
    LET d == IF c \in 48..57 THEN c - 48
             ELSE IF c \in 97..122 THEN c - 87
             ELSE IF c \in 65..90 THEN c - 55
             ELSE -1
    IN IF d >= 0 /\ d < radix THEN d ELSE -1

IsDigit(str, p, radix) == p <= Len(str) /\ ToDigit(str[p], radix) >= 0

\* The first position at or after p that holds no digit.
RECURSIVE DigitsEnd(_, _, _)
DigitsEnd(str, p, radix) ==
    IF IsDigit(str, p, radix) THEN DigitsEnd(str, p + 1, radix) ELSE p

\* The value of the digits str[p..q-1], most significant first.
RECURSIVE DigitsValue(_, _, _, _)
DigitsValue(str, p, q, radix) ==
    IF p >= q THEN 0
    ELSE DigitsValue(str, p, q - 1, radix) * radix + ToDigit(str[q - 1], radix)

\* core::net::parser::Parser::read_number: every digit at p is read; more
\* than max_digits digits, no digit, a forbidden zero prefix or a value above
\* max_value (the target integer type's) fail.
ReadNumber(str, p, radix, max_digits, allow_zero_prefix, max_value) ==
    LET q == DigitsEnd(str, p, radix)
        digit_count == q - p
        has_leading_zero == p <= Len(str) /\ str[p] = 48
        value == DigitsValue(str, p, q, radix)
    IN IF digit_count = 0 \/ digit_count > max_digits THEN Fail
       ELSE IF ~allow_zero_prefix /\ has_leading_zero /\ digit_count > 1 THEN Fail
       ELSE IF value > max_value THEN Fail
       ELSE [ok |-> TRUE, pos |-> q, val |-> value]

\* Parser::read_ipv4_addr from position p: four decimal u8 groups with dots
\* (46) between; val is the four octets.
RECURSIVE ReadIpv4Groups(_, _, _, _)
ReadIpv4Groups(str, p, i, acc) ==
    IF i = 4 THEN [ok |-> TRUE, pos |-> p, val |-> acc]
    ELSE
        LET sep_ok == i = 0 \/ (p <= Len(str) /\ str[p] = 46)
            p1 == IF i = 0 THEN p ELSE p + 1
            Rest(g) ==
                IF g.ok THEN ReadIpv4Groups(str, g.pos, i + 1, Append(acc, g.val))
                ELSE Fail
        IN Only({ Rest(g) : g \in { IF sep_ok
                                     THEN ReadNumber(str, p1, 10, 3, FALSE, 255)
                                     ELSE Fail } })

ReadIpv4(str, p) == ReadIpv4Groups(str, p, 0, <<>>)

\* read_groups of Parser::read_ipv6_addr: up to limit 16-bit groups with
\* colons between, the last two of which may be an embedded IPv4 address.
RECURSIVE ReadGroups(_, _, _, _, _)
ReadGroups(str, p, i, limit, acc) ==
    IF i >= limit THEN [size |-> i, ipv4 |-> FALSE, pos |-> p, groups |-> acc]
    ELSE
        LET sep_ok == i = 0 \/ (p <= Len(str) /\ str[p] = Colon)
            p1 == IF i = 0 THEN p ELSE p + 1
            Rest(v4, g) ==
                IF v4.ok
                THEN [size |-> i + 2, ipv4 |-> TRUE, pos |-> v4.pos,
                      groups |-> acc \o <<v4.val[1] * 256 + v4.val[2],
                                          v4.val[3] * 256 + v4.val[4]>>]
                ELSE IF g.ok
                THEN ReadGroups(str, g.pos, i + 1, limit, Append(acc, g.val))
                ELSE [size |-> i, ipv4 |-> FALSE, pos |-> p, groups |-> acc]
        IN Only({ Rest(v4, g) :
                    v4 \in { IF i < limit - 1 /\ sep_ok
                             THEN ReadIpv4(str, p1) ELSE Fail },
                    g \in { IF sep_ok
                            THEN ReadNumber(str, p1, 16, 4, TRUE, 65535)
                            ELSE Fail } })

Zeros(n) == [i \in 1..n |-> 0]

\* Parser::read_ipv6_addr from position 1; val is the eight groups.
ReadIpv6(str) ==
    LET Joined(head, tail) ==
            [ok |-> TRUE, pos |-> tail.pos,
             val |-> head.groups \o Zeros(8 - head.size - tail.size)
                     \o tail.groups]
        Rest(head) ==
            IF head.size = 8
            THEN [ok |-> TRUE, pos |-> head.pos, val |-> head.groups]
            ELSE IF head.ipv4 THEN Fail
            ELSE IF ~(head.pos + 1 <= Len(str)
                      /\ str[head.pos] = Colon /\ str[head.pos + 1] = Colon)
            THEN Fail
            ELSE Only({ Joined(head, tail) :
                        tail \in { ReadGroups(str, head.pos + 2, 0,
                                              8 - (head.size + 1), <<>>) } })
    IN Only({ Rest(head) : head \in { ReadGroups(str, 1, 0, 8, <<>>) } })

\* <Ipv4Addr as FromStr>: the whole string must be the address.
ParseIpv4(str) ==
    Only({ IF Len(str) <= 15 /\ r.ok /\ r.pos = Len(str) + 1 THEN r ELSE Fail :
           r \in { ReadIpv4(str, 1) } })

\* <Ipv6Addr as FromStr>.
ParseIpv6(str) ==
    Only({ IF r.ok /\ r.pos = Len(str) + 1 THEN r ELSE Fail :
           r \in { ReadIpv6(str) } })

\* Ipv6Addr::octets of eight groups.
RECURSIVE GroupOctets(_)
GroupOctets(groups) ==
    IF groups = <<>> THEN <<>>
    ELSE <<Head(groups) \div 256, Head(groups) % 256>> \o GroupOctets(Tail(groups))

\* host.parse::<std::net::IpAddr>(): "V4" with 4 octets, "V6" with 16, or
\* "Err".
ParseIpAddr(host) ==
    Only({ IF v4.ok THEN [kind |-> "V4", octets |-> v4.val]
           ELSE IF v6.ok THEN [kind |-> "V6", octets |-> GroupOctets(v6.val)]
           ELSE [kind |-> "Err", octets |-> <<>>] :
           v4 \in { ParseIpv4(host) }, v6 \in { ParseIpv6(host) } })

\* The digit loop of <u16 as FromStr>: result.checked_mul(10) and
\* checked_add(digit) from position p on; -1 once the u16 overflows.
RECURSIVE CheckedDigits(_, _, _)
CheckedDigits(digits, p, acc) ==
    IF p > Len(digits) THEN acc
    ELSE IF acc * 10 + ToDigit(digits[p], 10) > 65535 THEN -1
    ELSE CheckedDigits(digits, p + 1, acc * 10 + ToDigit(digits[p], 10))

\* <u16 as FromStr>: an optional '+' (43), then decimal digits, at most 65535.
ParseU16(str) ==
    LET digits == IF Len(str) > 1 /\ str[1] = 43 THEN Tail(str) ELSE str
        q == DigitsEnd(digits, 1, 10)
        Checked(value) ==
            IF value < 0 THEN Fail ELSE [ok |-> TRUE, pos |-> q, val |-> value]
    IN IF digits = <<>> \/ q # Len(digits) + 1 THEN Fail
       ELSE Only({ Checked(value) : value \in { CheckedDigits(digits, 1, 0) } })

\* u16::to_le_bytes
ToLeBytes(port) == <<port % 256, port \div 256>>

\* u16::to_be_bytes
ToBeBytes(port) == <<port \div 256, port % 256>>

\* len() as u8
AsU8(n) == n % 256

\* The position of the leftmost ':' of str at or after p, 0 when it has none.
RECURSIVE FirstColon(_, _)
FirstColon(str, p) ==
    IF p > Len(str) THEN 0 ELSE IF str[p] = Colon THEN p ELSE FirstColon(str, p + 1)

\* addr.splitn(2, ':') in place of rsplitn.
SplitAt(str) == FirstColon(str, 1)

\* The position of the rightmost ':' of str, 0 when it has none.
RECURSIVE LastColon(_, _)
LastColon(str, p) ==
    IF p = 0 THEN 0 ELSE IF str[p] = Colon THEN p ELSE LastColon(str, p - 1)

RSplitAt(str) == LastColon(str, Len(str))

\* Socks5Client::parse_address (lines 363-377): addr.rsplitn(2, ':'), the
\* port parsed as u16.
parse_address(addr) ==
    LET c == RSplitAt(addr)
        port == ParseU16(SubSeq(addr, c + 1, Len(addr)))
    IN IF c = 0
       THEN [ok |-> FALSE, error |-> "Invalid address format", host |-> <<>>, port |-> 0]
       ELSE IF ~port.ok
       THEN [ok |-> FALSE, error |-> "Invalid port", host |-> <<>>, port |-> 0]
       ELSE [ok |-> TRUE, error |-> "", host |-> SubSeq(addr, 1, c - 1),
             port |-> port.val]

(***************************************************************************)
(* The SOCKS5 client: what it is called with.                              *)
(***************************************************************************)
\* "u" / "p" (scenario S2), and a second pair with an empty username.
Credentials ==
    { <<None, None>>,
      <<Some(<<117>>), Some(<<112>>)>>,
      <<Some(<<>>), Some(<<97, 98>>)>> }

\* "example.com:80"
ExampleCom80 == <<101, 120, 97, 109, 112, 108, 101, 46, 99, 111, 109, 58, 56, 48>>

\* "1.2.3.4:443", "::1:53", "[::1]:53", "256.1.1.1:8", "localhost",
\* "a.b:99999"
Targets ==
    { ExampleCom80,
      <<49, 46, 50, 46, 51, 46, 52, 58, 52, 52, 51>>,
      <<58, 58, 49, 58, 53, 51>>,
      <<91, 58, 58, 49, 93, 58, 53, 51>>,
      <<50, 53, 54, 46, 49, 46, 49, 46, 49, 58, 56>>,
      <<108, 111, 99, 97, 108, 104, 111, 115, 116>>,
      <<97, 46, 98, 58, 57, 57, 57, 57, 57>> }

(***************************************************************************)
(* The proxy's side of the wire: what a read may return.                   *)
(***************************************************************************)
\* The 2 bytes read after the greeting.
MethodReplies == {<<5, 0>>, <<5, 2>>, <<5, 255>>, <<5, 1>>, <<4, 0>>, <<4, 2>>}

\* The 2 bytes read after the username/password request.
AuthReplies == {<<1, 0>>, <<1, 1>>, <<5, 0>>, <<0, 0>>}

\* The 4 bytes read after a CONNECT or UDP ASSOCIATE request.
RequestReplies ==
    { <<ver, rep, 0, atyp>> :
        ver \in {5, 4}, rep \in (0..9) \cup {255}, atyp \in {0, 1, 2, 3, 4} }

\* The bytes the proxy sends after those 4 before it falls silent and closes.
BndSuffixes ==
    { <<>>, Zeros(5), <<10, 0, 0, 1, 4, 56>>, Zeros(7),
      <<2, 97>>, <<2, 97, 98, 0>>, <<2, 97, 98, 0, 80>>, <<0, 0, 80>>,
      Zeros(17), Zeros(18) }

(***************************************************************************)
(* Socks5Client                                                            *)
(***************************************************************************)
Pending == [kind |-> "pending", error |-> ""]

Ok == [kind |-> "Ok", error |-> ""]

Err(kind, error) == [kind |-> kind, error |-> error]

\* A finished call: what it returned, nothing more to do.
Return(r) ==
    /\ socks_result' = r
    /\ spc' = "done"

SocksInit ==
    /\ \E c \in Credentials :
        /\ username = c[1]
        /\ password = c[2]
    /\ command \in {"connect", "udp_associate"}
    /\ target_addr \in Targets
    /\ spc = "tcp_connect"
    /\ written = <<>>
    /\ method_response = <<>>
    /\ auth_response = <<>>
    /\ reply = <<>>
    /\ bnd = <<>>
    /\ bnd_read = 0
    /\ socks_result = Pending

\* Lines 46-53 and 69-76: the TCP connection to the proxy, under self.timeout.
TcpConnected ==
    /\ spc = "tcp_connect"
    /\ spc' = "send_handshake"
    /\ UNCHANGED <<username, password, command, target_addr, written,
                   method_response, auth_response, reply, bnd, bnd_read,
                   socks_result, nonSocksVars>>

TcpConnectFailed ==
    /\ spc = "tcp_connect"
    /\ \E e \in { Err("Timeout", "Failed to connect to SOCKS5 proxy"),
                  Err("Connection", "Failed to connect to proxy") } :
        Return(e)
    /\ UNCHANGED <<username, password, command, target_addr, written,
                   method_response, auth_response, reply, bnd, bnd_read,
                   nonSocksVars>>

\* Lines 101-105.
auth_method ==
    IF username.is_some /\ password.is_some THEN 2 ELSE 0

\* Line 107.
handshake == <<5, 1, auth_method>>

\* Lines 107-108: the greeting is written.
SendHandshake ==
    /\ spc = "send_handshake"
    /\ written' = Append(written, handshake)
    /\ spc' = "read_method"
    /\ UNCHANGED <<username, password, command, target_addr,
                   method_response, auth_response, reply, bnd, bnd_read,
                   socks_result, nonSocksVars>>

\* A variant of lines 119-138 whose last arm lets an unknown method pass.
MethodDispatchLenient(response) ==
    IF response[1] # 5
    THEN [next |-> "done", result |-> Err("Socks5", "Invalid SOCKS version in response")]
    ELSE IF response[2] = 2
    THEN [next |-> "authenticate", result |-> Pending]
    ELSE IF response[2] = 255
    THEN [next |-> "done", result |-> Err("Socks5", "No acceptable authentication methods")]
    ELSE [next |-> "send_request", result |-> Pending]

\* Lines 113-140: what follows the 2 bytes read.  "authenticate": the
\* username/password sub-negotiation is entered; "send_request": the
\* handshake returned Ok(()).
MethodDispatch(response) ==
    IF response[1] # 5
    THEN [next |-> "done", result |-> Err("Socks5", "Invalid SOCKS version in response")]
    ELSE IF response[2] = 0
    THEN [next |-> "send_request", result |-> Pending]
    ELSE IF response[2] = 2
    THEN [next |-> "authenticate", result |-> Pending]
    ELSE IF response[2] = 255
    THEN [next |-> "done", result |-> Err("Socks5", "No acceptable authentication methods")]
    ELSE [next |-> "done", result |-> Err("Socks5", "Unknown authentication method")]

\* Lines 110-140: the method selection is read and dispatched on.
ReadMethod ==
    /\ spc = "read_method"
    /\ \E response \in MethodReplies :
        /\ method_response' = response
        /\ spc' = MethodDispatch(response).next
        /\ socks_result' = MethodDispatch(response).result
    /\ UNCHANGED <<username, password, command, target_addr, written,
                   auth_response, reply, bnd, bnd_read, nonSocksVars>>

\* Lines 153-158.
auth_request ==
    <<1, AsU8(Len(username.v))>> \o username.v
    \o <<AsU8(Len(password.v))>> \o password.v

\* A variant of lines 144-149 that does not look at the credentials.
CredentialsUnchecked == ""

\* Lines 144-149: authenticate's look at the credentials.
CredentialsError ==
    IF ~username.is_some THEN "Username required for authentication"
    ELSE IF ~password.is_some THEN "Password required for authentication"
    ELSE ""

\* Lines 144-160: authenticate up to its write.
Authenticate ==
    /\ spc = "authenticate"
    /\ IF CredentialsError # ""
       THEN /\ Return(Err("Socks5", CredentialsError))
            /\ UNCHANGED written
       ELSE /\ written' = Append(written, auth_request)
            /\ spc' = "read_auth"
            /\ UNCHANGED socks_result
    /\ UNCHANGED <<username, password, command, target_addr,
                   method_response, auth_response, reply, bnd, bnd_read,
                   nonSocksVars>>

\* A variant of lines 165-178 without the test of the status byte.
AuthDispatchIgnoresStatus(response) ==
    IF response[1] # 1
    THEN [next |-> "done", result |-> Err("Socks5", "Invalid authentication response version")]
    ELSE [next |-> "send_request", result |-> Pending]

\* Lines 165-178.
AuthDispatch(response) ==
    IF response[1] # 1
    THEN [next |-> "done", result |-> Err("Socks5", "Invalid authentication response version")]
    ELSE IF response[2] # 0
    THEN [next |-> "done", result |-> Err("Socks5", "Authentication failed")]
    ELSE [next |-> "send_request", result |-> Pending]

\* Lines 162-178.
ReadAuth ==
    /\ spc = "read_auth"
    /\ \E response \in AuthReplies :
        /\ auth_response' = response
        /\ spc' = AuthDispatch(response).next
        /\ socks_result' = AuthDispatch(response).result
    /\ UNCHANGED <<username, password, command, target_addr, written,
                   method_response, reply, bnd, bnd_read, nonSocksVars>>

\* Lines 189-204: ATYP and the address.
AddressBytes(host) ==
    Only({ IF ip.kind = "V4" THEN <<1>> \o ip.octets
           ELSE IF ip.kind = "V6" THEN <<4>> \o ip.octets
           ELSE <<3, AsU8(Len(host))>> \o host :
           ip \in { ParseIpAddr(host) } })

\* Lines 186-206.
connect_request(host, port) ==
    <<5, 1, 0>> \o AddressBytes(host) \o ToBeBytes(port)

\* Lines 282-287.
udp_associate_request == <<5, 3, 0, 1, 0, 0, 0, 0, 0, 0>>

\* Lines 184-208: socks5_connect up to its write.
SendConnect ==
    /\ spc = "send_request"
    /\ command = "connect"
    /\ LET a == parse_address(target_addr)
       IN IF a.ok
          THEN /\ written' = Append(written, connect_request(a.host, a.port))
               /\ spc' = "read_reply"
               /\ UNCHANGED socks_result
          ELSE /\ Return(Err("Config", a.error))
               /\ UNCHANGED written
    /\ UNCHANGED <<username, password, command, target_addr,
                   method_response, auth_response, reply, bnd, bnd_read,
                   nonSocksVars>>

\* Lines 282-289: socks5_udp_associate up to its write.
SendUdpAssociate ==
    /\ spc = "send_request"
    /\ command = "udp_associate"
    /\ written' = Append(written, udp_associate_request)
    /\ spc' = "read_reply"
    /\ UNCHANGED <<username, password, command, target_addr,
                   method_response, auth_response, reply, bnd, bnd_read,
                   socks_result, nonSocksVars>>

\* Lines 219-251 and 300-332: the match on REP.
RepError(rep) ==
    CASE rep = 0 -> ""
      [] rep = 1 -> "General SOCKS server failure"
      [] rep = 2 -> "Connection not allowed by ruleset"
      [] rep = 3 -> "Network unreachable"
      [] rep = 4 -> "Host unreachable"
      [] rep = 5 -> "Connection refused"
      [] rep = 6 -> "TTL expired"
      [] rep = 7 -> "Command not supported"
      [] rep = 8 -> "Address type not supported"
      [] OTHER -> "Unknown error code"

\* Lines 213-251 and 294-332: what follows the 4 bytes read.
ReplyDispatch(response) ==
    IF response[1] # 5
    THEN [next |-> "done",
          result |-> Err("Socks5", IF command = "connect"
                                   THEN "Invalid SOCKS version in connect response"
                                   ELSE "Invalid SOCKS version in UDP associate response")]
    ELSE IF RepError(response[2]) # ""
    THEN [next |-> "done", result |-> Err("Socks5", RepError(response[2]))]
    ELSE [next |-> "read_bnd", result |-> Pending]

\* Lines 210-251 and 291-332.
ReadReply ==
    /\ spc = "read_reply"
    /\ \E response \in RequestReplies :
        /\ reply' = response
        /\ spc' = ReplyDispatch(response).next
        /\ socks_result' = ReplyDispatch(response).result
    /\ UNCHANGED <<username, password, command, target_addr, written,
                   method_response, auth_response, bnd, bnd_read,
                   nonSocksVars>>

\* read_exact of n bytes at offset off of the bytes the proxy sends.
ReadExact(avail, off, n) == off + n <= Len(avail)

\* A variant of lines 253-274 that reads BND.ADDR without BND.PORT for IPv4.
ConnectBndWithoutPort(addr_type, avail) ==
    CASE addr_type = 1 ->
            IF ReadExact(avail, 0, 4)
            THEN [read |-> 4, result |-> Ok]
            ELSE [read |-> Len(avail), result |-> Err("Io", "failed to fill whole buffer")]
      [] addr_type = 3 ->
            IF ~ReadExact(avail, 0, 1)
            THEN [read |-> Len(avail), result |-> Err("Io", "failed to fill whole buffer")]
            ELSE IF ReadExact(avail, 1, avail[1] + 2)
            THEN [read |-> 1 + avail[1] + 2, result |-> Ok]
            ELSE [read |-> Len(avail), result |-> Err("Io", "failed to fill whole buffer")]
      [] addr_type = 4 ->
            IF ReadExact(avail, 0, 18)
            THEN [read |-> 18, result |-> Ok]
            ELSE [read |-> Len(avail), result |-> Err("Io", "failed to fill whole buffer")]
      [] OTHER -> [read |-> 0, result |-> Err("Socks5", "Unknown address type")]

\* Lines 253-274: socks5_connect drains BND.ADDR and BND.PORT.  The bytes
\* consumed and the result, given the bytes the proxy sends.
ConnectBnd(addr_type, avail) ==
    CASE addr_type = 1 ->
            IF ReadExact(avail, 0, 6)
            THEN [read |-> 6, result |-> Ok]
            ELSE [read |-> Len(avail), result |-> Err("Io", "failed to fill whole buffer")]
      [] addr_type = 3 ->
            IF ~ReadExact(avail, 0, 1)
            THEN [read |-> Len(avail), result |-> Err("Io", "failed to fill whole buffer")]
            ELSE IF ReadExact(avail, 1, avail[1] + 2)
            THEN [read |-> 1 + avail[1] + 2, result |-> Ok]
            ELSE [read |-> Len(avail), result |-> Err("Io", "failed to fill whole buffer")]
      [] addr_type = 4 ->
            IF ReadExact(avail, 0, 18)
            THEN [read |-> 18, result |-> Ok]
            ELSE [read |-> Len(avail), result |-> Err("Io", "failed to fill whole buffer")]
      [] OTHER -> [read |-> 0, result |-> Err("Socks5", "Unknown address type")]

\* Lines 334-358: socks5_udp_associate reads the relay address.
UdpAssociateBnd(addr_type, avail) ==
    CASE addr_type = 1 ->
            IF ReadExact(avail, 0, 6)
            THEN [read |-> 6, result |-> Ok]
            ELSE [read |-> Len(avail), result |-> Err("Io", "failed to fill whole buffer")]
      [] addr_type = 4 ->
            IF ReadExact(avail, 0, 18)
            THEN [read |-> 18, result |-> Ok]
            ELSE [read |-> Len(avail), result |-> Err("Io", "failed to fill whole buffer")]
      [] OTHER -> [read |-> 0, result |-> Err("Socks5", "Unsupported address type for UDP relay")]

\* Lines 336-352: the relay address made of the bytes read, for the address
\* types socks5_udp_associate accepts.
RelayAddr(addr_type, addr) ==
    IF addr_type = 1
    THEN [ip |-> SubSeq(addr, 1, 4), port |-> addr[5] * 256 + addr[6]]
    ELSE [ip |-> SubSeq(addr, 1, 16), port |-> addr[17] * 256 + addr[18]]

\* Lines 253-277 and 59-60: the tunnel is returned once the suffix is read.
ReadBndConnect ==
    /\ spc = "read_bnd"
    /\ command = "connect"
    /\ \E avail \in BndSuffixes :
        /\ bnd' = avail
        /\ bnd_read' = ConnectBnd(reply[4], avail).read
        /\ Return(ConnectBnd(reply[4], avail).result)
    /\ UNCHANGED <<username, password, command, target_addr, written,
                   method_response, auth_response, reply, nonSocksVars>>

\* Lines 334-360: the relay address is read; the UDP socket is bound next.
ReadBndUdpAssociate ==
    /\ spc = "read_bnd"
    /\ command = "udp_associate"
    /\ \E avail \in BndSuffixes :
        LET r == UdpAssociateBnd(reply[4], avail)
        IN /\ bnd' = avail
           /\ bnd_read' = r.read
           /\ IF r.result = Ok
              THEN spc' = "bind_udp" /\ UNCHANGED socks_result
              ELSE Return(r.result)
    /\ UNCHANGED <<username, password, command, target_addr, written,
                   method_response, auth_response, reply, nonSocksVars>>

\* Lines 82-95: UdpSocket::bind("0.0.0.0:0"), then the relay is returned.
BindUdp ==
    /\ spc = "bind_udp"
    /\ \E r \in {Ok, Err("Connection", "Failed to bind UDP socket")} : Return(r)
    /\ UNCHANGED <<username, password, command, target_addr, written,
                   method_response, auth_response, reply, bnd, bnd_read,
                   nonSocksVars>>

\* A write_all or read_exact of the handshake fails (the proxy closed or
\* reset the connection): `?` returns the Io error.
IoError ==
    /\ spc \in {"send_handshake", "read_method", "authenticate", "read_auth",
                "send_request", "read_reply"}
    /\ spc = "authenticate" => CredentialsError = ""
    /\ spc = "send_request" => parse_address(target_addr).ok \/ command # "connect"
    /\ Return(Err("Io", "io error"))
    /\ UNCHANGED <<username, password, command, target_addr, written,
                   method_response, auth_response, reply, bnd, bnd_read,
                   nonSocksVars>>

SocksNext ==
    \/ TcpConnected
    \/ TcpConnectFailed
    \/ SendHandshake
    \/ ReadMethod
    \/ Authenticate
    \/ ReadAuth
    \/ SendConnect
    \/ SendUdpAssociate
    \/ ReadReply
    \/ ReadBndConnect
    \/ ReadBndUdpAssociate
    \/ BindUdp
    \/ IoError

(***************************************************************************)
(* Formatting, as Display does it.                                         *)
(***************************************************************************)
\* {} of an unsigned integer: decimal, no leading zero.
RECURSIVE Decimal(_)
Decimal(n) ==
    IF n < 10 THEN <<48 + n>> ELSE Decimal(n \div 10) \o <<48 + (n % 10)>>

\* {:x} of a u16: lower-case hexadecimal, no leading zero.
RECURSIVE LowerHex(_)
LowerHex(n) ==
    LET digit == IF n % 16 < 10 THEN 48 + (n % 16) ELSE 87 + (n % 16)
    IN IF n < 16 THEN <<digit>> ELSE LowerHex(n \div 16) \o <<digit>>

\* <Ipv4Addr as Display>: the four octets in decimal with dots between.
FormatIpv4(octets) ==
    Decimal(octets[1]) \o <<46>> \o Decimal(octets[2]) \o <<46>>
        \o Decimal(octets[3]) \o <<46>> \o Decimal(octets[4])

\* Ipv6Addr::segments of 16 octets.
Segments(octets) == [i \in 1..8 |-> octets[2 * i - 1] * 256 + octets[2 * i]]

\* fmt_subslice of <Ipv6Addr as Display>: groups in hexadecimal with colons
\* between.
RECURSIVE FormatGroups(_)
FormatGroups(groups) ==
    IF groups = <<>> THEN <<>>
    ELSE IF Len(groups) = 1 THEN LowerHex(groups[1])
    ELSE LowerHex(groups[1]) \o <<Colon>> \o FormatGroups(Tail(groups))

\* The number of zero groups in a row from position i on.
RECURSIVE ZeroRun(_, _)
ZeroRun(groups, i) ==
    IF i > Len(groups) \/ groups[i] # 0 THEN 0 ELSE 1 + ZeroRun(groups, i + 1)

\* <Ipv6Addr as Display>: ::ffff:a.b.c.d for an IPv4-mapped address; else
\* the first longest run of two or more zero groups is written "::".
FormatIpv6(octets) ==
    LET groups == Segments(octets)
        longest == CHOOSE l \in 0..8 :
                       /\ \E i \in 1..8 : ZeroRun(groups, i) = l
                       /\ \A i \in 1..8 : ZeroRun(groups, i) <= l
        start == CHOOSE i \in 1..8 :
                     /\ ZeroRun(groups, i) = longest
                     /\ \A j \in 1..(i - 1) : ZeroRun(groups, j) < longest
    IN IF SubSeq(groups, 1, 6) = <<0, 0, 0, 0, 0, 65535>>
       THEN <<Colon, Colon, 102, 102, 102, 102, Colon>>
                \o FormatIpv4(SubSeq(octets, 13, 16))
       ELSE IF longest > 1
       THEN FormatGroups(SubSeq(groups, 1, start - 1)) \o <<Colon, Colon>>
                \o FormatGroups(SubSeq(groups, start + longest, 8))
       ELSE FormatGroups(groups)

\* String::from_utf8_lossy of bytes none of which starts a multi-byte
\* sequence (none in C2..F4): an ASCII byte is kept, any other byte is
\* replaced by U+FFFD (EF BF BD).
RECURSIVE FromUtf8Lossy(_)
FromUtf8Lossy(bytes) ==
    IF bytes = <<>> THEN <<>>
    ELSE (IF Head(bytes) < 128 THEN <<Head(bytes)>> ELSE <<239, 191, 189>>)
             \o FromUtf8Lossy(Tail(bytes))

(***************************************************************************)
(* Socks5UdpRelay                                                          *)
(***************************************************************************)
\* The first checks of recv_from (lines 397-413): the error, "" when the
\* datagram passes.  This variant lets a fragment through.
UdpHeaderErrorIgnoresFrag(dg) ==
    IF Len(dg) < 10 THEN "Invalid SOCKS5 UDP packet: too short"
    ELSE IF dg[1] # 0 \/ dg[2] # 0 THEN "Invalid SOCKS5 UDP packet: bad header"
    ELSE ""

UdpHeaderError(dg) ==
    IF Len(dg) < 10 THEN "Invalid SOCKS5 UDP packet: too short"
    ELSE IF dg[1] # 0 \/ dg[2] # 0 THEN "Invalid SOCKS5 UDP packet: bad header"
    ELSE IF dg[3] # 0 THEN "Fragmentation not supported"
    ELSE ""

\* match addr_type (lines 415-462) on a datagram of 10 bytes or more:
\* (header_len, target_addr), or the error.
UdpAddress(dg) ==
    LET n == Len(dg)
        addr_type == dg[4]
        domain_len == dg[5]
        Bad(error) == [error |-> error, header_len |-> 0, target_addr |-> <<>>]
        Good(len, addr) == [error |-> "", header_len |-> len, target_addr |-> addr]
    IN CASE addr_type = 1 ->
                IF n < 10 THEN Bad("Invalid IPv4 UDP packet")
                ELSE Good(10, FormatIpv4(SubSeq(dg, 5, 8)) \o <<Colon>>
                                  \o Decimal(dg[9] * 256 + dg[10]))
         [] addr_type = 3 ->
                IF n < 5 THEN Bad("Invalid domain UDP packet")
                ELSE IF n < 5 + domain_len + 2
                THEN Bad("Invalid domain UDP packet: too short")
                ELSE Good(5 + domain_len + 2,
                          FromUtf8Lossy(SubSeq(dg, 6, 5 + domain_len)) \o <<Colon>>
                              \o Decimal(dg[6 + domain_len] * 256
                                         + dg[7 + domain_len]))
         [] addr_type = 4 ->
                IF n < 22 THEN Bad("Invalid IPv6 UDP packet")
                ELSE Good(22, FormatIpv6(SubSeq(dg, 5, 20)) \o <<Colon>>
                                  \o Decimal(dg[21] * 256 + dg[22]))
         [] OTHER -> Bad("Unsupported address type")

UdpErr(kind, error) ==
    [kind |-> kind, error |-> error, payload |-> <<>>, target_addr |-> <<>>]

\* Socks5UdpRelay::recv_from on the datagram dg (buf[..n]): the payload is
\* what copy_within leaves in buf[..data_len].
recv_from(dg) ==
    IF UdpHeaderError(dg) # "" THEN UdpErr("Connection", UdpHeaderError(dg))
    ELSE Only({ IF a.error # "" THEN UdpErr("Connection", a.error)
                ELSE [kind |-> "Ok", error |-> "",
                      payload |-> SubSeq(dg, a.header_len + 1, Len(dg)),
                      target_addr |-> a.target_addr] :
                a \in {UdpAddress(dg)} })

\* Socks5UdpRelay::encapsulate_udp_packet (lines 469-498); its parse_address
\* (lines 500-514) and its address encoding are those of Socks5Client.
encapsulate_udp_packet(data, target) ==
    Only({ IF ~a.ok THEN [ok |-> FALSE, error |-> a.error, packet |-> <<>>]
           ELSE [ok |-> TRUE, error |-> "",
                 packet |-> <<0, 0, 0>> \o AddressBytes(a.host)
                                \o ToBeBytes(a.port) \o data] :
           a \in {parse_address(target)} })

\* What send_to is called with.
Payloads == {<<>>, <<7>>, <<7, 8, 9>>}

\* "a:80", "example.com:80", "1.2.3.4:443", "::1:53", "2001:db8::1:8",
\* "::ffff:1.2.3.4:9", "0:0:0:0:0:0:0:1:53", "a:080", "localhost",
\* "a.b:99999"
UdpTargets ==
    { <<97, 58, 56, 48>>,
      ExampleCom80,
      <<49, 46, 50, 46, 51, 46, 52, 58, 52, 52, 51>>,
      <<58, 58, 49, 58, 53, 51>>,
      <<50, 48, 48, 49, 58, 100, 98, 56, 58, 58, 49, 58, 56>>,
      <<58, 58, 102, 102, 102, 102, 58, 49, 46, 50, 46, 51, 46, 52, 58, 57>>,
      <<48, 58, 48, 58, 48, 58, 48, 58, 48, 58, 48, 58, 48, 58, 49, 58, 53, 51>>,
      <<97, 58, 48, 56, 48>>,
      <<108, 111, 99, 97, 108, 104, 111, 115, 116>>,
      <<97, 46, 98, 58, 57, 57, 57, 57, 57>> }

\* What the relay may put in the socket: RSV RSV FRAG ATYP and what follows.
DatagramBodies ==
    { <<>>, Zeros(5),
      <<10, 0, 0, 1, 0, 53>>,
      <<10, 0, 0, 1, 0, 53, 7>>,
      <<1, 97, 0, 80>>,
      <<1, 97, 0, 80, 7, 8>>,
      <<3, 97, 46, 98, 0, 80>>,
      <<9, 97, 98, 99, 100, 101>>,
      <<0, 0, 80, 1, 2, 3>>,
      <<1, 255, 0, 80, 1, 2>>,
      Zeros(17),
      Zeros(15) \o <<1, 0, 53>>,
      <<32, 1, 13, 184>> \o Zeros(11) \o <<1, 0, 8, 7>>,
      Zeros(10) \o <<255, 255, 1, 2, 3, 4, 0, 9, 7, 8>> }

Datagrams ==
    { rsv \o <<frag, atyp>> \o body :
        rsv \in {<<0, 0>>, <<1, 0>>, <<0, 1>>}, frag \in {0, 1},
        atyp \in 0..5, body \in DatagramBodies }

UdpInit ==
    /\ udp_data \in Payloads
    /\ udp_target \in UdpTargets
    /\ upc = "send_to"
    /\ packet = <<>>
    /\ inbox = <<>>
    /\ send_result = Pending
    /\ recv_result = UdpErr("pending", "")

\* Socks5UdpRelay::send_to (lines 381-388): the Config error of
\* encapsulate_udp_packet, or the datagram sent to the relay.
SendTo ==
    /\ upc = "send_to"
    /\ \E e \in { encapsulate_udp_packet(udp_data, udp_target) } :
           IF e.ok
           THEN /\ packet' = e.packet
                /\ send_result' = Ok
                /\ upc' = "relay"
           ELSE /\ packet' = packet
                /\ send_result' = Err("Config", e.error)
                /\ upc' = "done"
    /\ UNCHANGED <<udp_data, udp_target, inbox, recv_result, nonUdpVars>>

\* socket.send_to fails.
SendToIoError ==
    /\ upc = "send_to"
    /\ encapsulate_udp_packet(udp_data, udp_target).ok
    /\ send_result' = Err("Io", "io error")
    /\ upc' = "done"
    /\ UNCHANGED <<udp_data, udp_target, packet, inbox, recv_result,
                   nonUdpVars>>

\* The relay returns the datagram as it was sent.
RelayEcho ==
    /\ upc = "relay"
    /\ inbox' = packet
    /\ upc' = "recv_from"
    /\ UNCHANGED <<udp_data, udp_target, packet, send_result, recv_result,
                   nonUdpVars>>

\* The relay sends a datagram of its own.
RelayAnswer ==
    /\ upc = "relay"
    /\ inbox' \in Datagrams
    /\ upc' = "recv_from"
    /\ UNCHANGED <<udp_data, udp_target, packet, send_result, recv_result,
                   nonUdpVars>>

\* Socks5UdpRelay::recv_from (lines 390-467) on the datagram in the socket.
RecvFrom ==
    /\ upc = "recv_from"
    /\ recv_result' = recv_from(inbox)
    /\ upc' = "done"
    /\ UNCHANGED <<udp_data, udp_target, packet, inbox, send_result,
                   nonUdpVars>>

\* socket.recv_from fails (lines 391-395).
RecvFromIoError ==
    /\ upc = "recv_from"
    /\ recv_result' = UdpErr("Io", "io error")
    /\ upc' = "done"
    /\ UNCHANGED <<udp_data, udp_target, packet, inbox, send_result,
                   nonUdpVars>>

UdpNext ==
    \/ SendTo
    \/ SendToIoError
    \/ RelayEcho
    \/ RelayAnswer
    \/ RecvFrom
    \/ RecvFromIoError

(***************************************************************************)
(* parse_address on its own.                                               *)
(***************************************************************************)
\* "", "a", "example.com", "192.168.1.1", "::1", "[::1]", "a:b:c", ":",
\* "x:80"
AddrHosts ==
    { <<>>, <<97>>,
      <<101, 120, 97, 109, 112, 108, 101, 46, 99, 111, 109>>,
      <<49, 57, 50, 46, 49, 54, 56, 46, 49, 46, 49>>,
      <<58, 58, 49>>,
      <<91, 58, 58, 49, 93>>,
      <<97, 58, 98, 58, 99>>,
      <<58>>,
      <<120, 58, 56, 48>> }

\* Ports written in decimal.
AddrPorts == {0, 1, 9, 10, 80, 443, 8080, 65535}

\* Ports above u16::MAX written in decimal.
OutOfRangePorts == {Decimal(65536), Decimal(99999), Decimal(100000080)}

\* "", "http", "8x", "-1", " 80", "0x50", "80 "
NonNumericPorts ==
    { <<>>, <<104, 116, 116, 112>>, <<56, 120>>, <<45, 49>>, <<32, 56, 48>>,
      <<48, 120, 53, 48>>, <<56, 48, 32>> }

\* "+80", "080": numerals that are not what Display writes.
OtherNumerals == { <<43, 56, 48>>, <<48, 56, 48>> }

AddrInit ==
    /\ addr_host \in AddrHosts
    /\ addr_port \in { Decimal(p) : p \in AddrPorts } \cup OutOfRangePorts
                         \cup NonNumericPorts \cup OtherNumerals
    /\ addr_colon \in BOOLEAN
    /\ address = IF addr_colon THEN addr_host \o <<Colon>> \o addr_port
                 ELSE addr_host \o addr_port
    /\ apc = "parse_address"
    /\ parsed = [kind |-> "pending", host |-> <<>>, port |-> 0]

\* One call of Socks5Client::parse_address (lines 363-377).
ParseAddress ==
    /\ apc = "parse_address"
    /\ \E r \in { parse_address(address) } :
           parsed' = IF r.ok THEN [kind |-> "Ok", host |-> r.host, port |-> r.port]
                     ELSE [kind |-> "Config", host |-> <<>>, port |-> 0]
    /\ apc' = "done"
    /\ UNCHANGED <<addr_host, addr_port, addr_colon, address, nonAddrVars>>

AddrNext == ParseAddress

(***************************************************************************)
(* BandwidthTest::run_bandwidth_test (src/src/tests/bandwidth.rs).         *)
(* The clock counts units of 100 ms.                                       *)
(***************************************************************************)
\* sleep(Duration::from_millis(100)) between rounds, in units of the clock.
RoundDelay == 1

\* timeout(Duration::from_secs(5), stream.read(..)), in units of the clock.
ReadTimeout == 50

\* The longest run, in units of the clock.
MaxBwDuration == 2

\* "\r\n\r\n"
CrLfCrLf == <<13, 10, 13, 10>>

\* What one stream.read may return: "HTTP/1.1 200 OK\r\n\r\n",
\* "HTTP/1.1 500 Error\r\n\r\n" (scenario S4), "HTTP/",
\* "1.1 201 Created\r\n\r\n", "204 No Content".
ReadFragments ==
    { <<72, 84, 84, 80, 47, 49, 46, 49, 32, 50, 48, 48, 32, 79, 75, 13, 10, 13, 10>>,
      <<72, 84, 84, 80, 47, 49, 46, 49, 32, 53, 48, 48, 32, 69, 114, 114, 111, 114, 13, 10, 13, 10>>,
      <<72, 84, 84, 80, 47>>,
      <<49, 46, 49, 32, 50, 48, 49, 32, 67, 114, 101, 97, 116, 101, 100, 13, 10, 13, 10>>,
      <<50, 48, 52, 32, 78, 111, 32, 67, 111, 110, 116, 101, 110, 116>> }

\* [u8]::ends_with
EndsWith(bytes, suffix) ==
    /\ Len(bytes) >= Len(suffix)
    /\ SubSeq(bytes, Len(bytes) - Len(suffix) + 1, Len(bytes)) = suffix

\* str::contains
Contains(str, pat) ==
    \E i \in 1..(Len(str) - Len(pat) + 1) : SubSeq(str, i, i + Len(pat) - 1) = pat

\* Any response that holds "HTTP/" passes, whatever its status.
verify_response_integrity_any_status(response) ==
    Contains(response, <<72, 84, 84, 80, 47>>)

\* BandwidthTest::verify_response_integrity (lines 247-253): "HTTP/" and one
\* of "200 OK", "201 Created", "204 No Content" (the responses of the model
\* are ASCII, which from_utf8_lossy leaves as they are).
verify_response_integrity(response) ==
    /\ Contains(response, <<72, 84, 84, 80, 47>>)
    /\ \/ Contains(response, <<50, 48, 48, 32, 79, 75>>)
       \/ Contains(response, <<50, 48, 49, 32, 67, 114, 101, 97, 116, 101, 100>>)
       \/ Contains(response, <<50, 48, 52, 32, 78, 111, 32, 67, 111, 110, 116, 101, 110, 116>>)

\* The error kinds of NetworkTestError a CONNECT can fail with.
ConnectErrors == {"Connection", "Socks5", "Io", "Timeout"}

ZeroBandwidthResult ==
    [total_bytes_sent |-> 0, total_bytes_received |-> 0,
     upload_samples |-> <<>>, download_samples |-> <<>>,
     connection_interruptions |-> 0, data_integrity_errors |-> 0]

\* A SpeedSample; bytes_per_second is chunk_size / duration.
SpeedSample(timestamp, size, duration) ==
    [timestamp |-> timestamp, chunk_size |-> size, duration |-> duration]

BwInit ==
    /\ chunk_size \in {1, 16}
    /\ bw_duration \in 0..MaxBwDuration
    /\ bw_now = 0
    /\ bw_end_time = bw_duration
    /\ bw_pc = "connect"
    /\ bw_result = ZeroBandwidthResult
    /\ response_buffer = <<>>
    /\ bytes_read = 0
    /\ bw_return = Pending
    /\ bw_connects = 0
    /\ bw_stream = 0
    /\ bw_open = 0
    /\ bw_written = <<>>
    /\ bw_io = "none"

\* run_bandwidth_test returns r; its stream, if any, is dropped.
BwReturn(r) ==
    /\ bw_return' = r
    /\ bw_open' = 0
    /\ bw_pc' = "done"

\* Line 90: the first client.connect succeeds.
BwInitialConnectOk ==
    /\ bw_pc = "connect"
    /\ bw_connects' = bw_connects + 1
    /\ bw_stream' = bw_connects + 1
    /\ bw_open' = 1
    /\ bw_pc' = "setup"
    /\ UNCHANGED <<bw_io, chunk_size, bw_duration, bw_now, bw_end_time, bw_result,
                   response_buffer, bytes_read, bw_return, bw_written,
                   nonBwVars>>

\* Line 90: the first client.connect fails and `?` returns the error.
BwInitialConnectErr ==
    /\ bw_pc = "connect"
    /\ bw_connects' = bw_connects + 1
    /\ \E kind \in ConnectErrors : BwReturn(Err(kind, "connect"))
    /\ UNCHANGED <<bw_io, chunk_size, bw_duration, bw_now, bw_end_time, bw_result,
                   response_buffer, bytes_read, bw_stream, bw_written,
                   nonBwVars>>

\* Lines 93-94: the setup request (GET /stream-bytes/N) is written.
BwSetupOk ==
    /\ bw_pc = "setup"
    /\ bw_written' = Append(bw_written, <<bw_stream, "setup">>)
    /\ bw_pc' = "loop"
    /\ UNCHANGED <<bw_io, chunk_size, bw_duration, bw_now, bw_end_time, bw_result,
                   response_buffer, bytes_read, bw_return, bw_connects,
                   bw_stream, bw_open, nonBwVars>>

\* Line 94: the write fails and `?` returns the Io error.
BwSetupErr ==
    /\ bw_pc = "setup"
    /\ BwReturn(Err("Io", "write setup"))
    /\ UNCHANGED <<bw_io, chunk_size, bw_duration, bw_now, bw_end_time, bw_result,
                   response_buffer, bytes_read, bw_connects, bw_stream,
                   bw_written, nonBwVars>>

\* Line 100: the deadline has not passed; perform_data_transfer begins.
BwRoundStart ==
    /\ bw_pc = "loop"
    /\ bw_now < bw_end_time
    /\ bw_pc' = "upload"
    /\ UNCHANGED <<bw_io, chunk_size, bw_duration, bw_now, bw_end_time, bw_result,
                   response_buffer, bytes_read, bw_return, bw_connects,
                   bw_stream, bw_open, bw_written, nonBwVars>>

\* Lines 100, 134-137: the deadline has passed; the result is returned.
BwLoopExit ==
    /\ bw_pc = "loop"
    /\ ~(bw_now < bw_end_time)
    /\ BwReturn(Ok)
    /\ UNCHANGED <<bw_io, chunk_size, bw_duration, bw_now, bw_end_time, bw_result,
                   response_buffer, bytes_read, bw_connects, bw_stream,
                   bw_written, nonBwVars>>

\* The Err arm without the count.
RoundFailedUncounted ==
    /\ bw_result' = bw_result
    /\ bw_pc' = "reconnect"

\* Lines 110-114: perform_data_transfer returned Err; the Err arm counts the
\* interruption and calls client.connect.
RoundFailed ==
    /\ bw_result' = [bw_result EXCEPT !.connection_interruptions = @ + 1]
    /\ bw_pc' = "reconnect"

\* Lines 146-169: the POST header and the chunk are written, the bytes are
\* counted and the upload sample is pushed.
BwUploadOk ==
    /\ bw_pc = "upload"
    /\ bw_written' = bw_written \o <<<<bw_stream, "post">>, <<bw_stream, "data">>>>
    /\ bw_result' = [bw_result EXCEPT
           !.total_bytes_sent = @ + chunk_size,
           !.upload_samples = Append(@, SpeedSample(bw_now, chunk_size, 0))]
    /\ response_buffer' = <<>>
    /\ bytes_read' = 0
    /\ bw_pc' = "download"
    /\ bw_io' = "write_ok"
    /\ UNCHANGED <<chunk_size, bw_duration, bw_now, bw_end_time, bw_return,
                   bw_connects, bw_stream, bw_open, nonBwVars>>

\* Line 157: the write of the POST header fails.
BwUploadHeaderErr ==
    /\ bw_pc = "upload"
    /\ RoundFailed
    /\ bw_io' = "write_err"
    /\ UNCHANGED <<chunk_size, bw_duration, bw_now, bw_end_time,
                   response_buffer, bytes_read, bw_return, bw_connects,
                   bw_stream, bw_open, bw_written, nonBwVars>>

\* Line 158: the header was written, the write of the chunk fails.
BwUploadDataErr ==
    /\ bw_pc = "upload"
    /\ bw_written' = Append(bw_written, <<bw_stream, "post">>)
    /\ RoundFailed
    /\ bw_io' = "write_err"
    /\ UNCHANGED <<chunk_size, bw_duration, bw_now, bw_end_time,
                   response_buffer, bytes_read, bw_return, bw_connects,
                   bw_stream, bw_open, nonBwVars>>

\* Lines 177-189: a read returns n > 0 bytes; the loop ends when the buffer
\* ends with "\r\n\r\n" or 2 * chunk_size bytes were read.
BwRead ==
    /\ bw_pc = "download"
    /\ \E fragment \in ReadFragments :
           /\ response_buffer' = response_buffer \o fragment
           /\ bytes_read' = bytes_read + Len(fragment)
    /\ bw_pc' = IF \/ (Len(response_buffer') >= 4
                        /\ EndsWith(response_buffer', CrLfCrLf))
                   \/ bytes_read' >= chunk_size * 2
                THEN "downloaded" ELSE "download"
    /\ bw_io' = "read_n"
    /\ UNCHANGED <<chunk_size, bw_duration, bw_now, bw_end_time, bw_result,
                   bw_return, bw_connects, bw_stream, bw_open, bw_written,
                   nonBwVars>>

\* A variant of lines 190-192 that takes a read of 0 bytes for a read error.
BwReadZeroAsError ==
    /\ bw_pc = "download"
    /\ bw_io' = "read_0"
    /\ RoundFailed
    /\ UNCHANGED <<chunk_size, bw_duration, bw_now, bw_end_time,
                   response_buffer, bytes_read, bw_return, bw_connects,
                   bw_stream, bw_open, bw_written, nonBwVars>>

\* Lines 190-192: a read returns 0 bytes (the peer closed the tunnel).
BwReadZero ==
    /\ bw_pc = "download"
    /\ bw_pc' = "downloaded"
    /\ bw_io' = "read_0"
    /\ UNCHANGED <<chunk_size, bw_duration, bw_now, bw_end_time, bw_result,
                   response_buffer, bytes_read, bw_return, bw_connects,
                   bw_stream, bw_open, bw_written, nonBwVars>>

\* Lines 200-203: a read passes its 5 s deadline.
BwReadTimeout ==
    /\ bw_pc = "download"
    /\ bw_now' = bw_now + ReadTimeout
    /\ bw_pc' = "downloaded"
    /\ bw_io' = "read_elapsed"
    /\ UNCHANGED <<chunk_size, bw_duration, bw_end_time, bw_result,
                   response_buffer, bytes_read, bw_return, bw_connects,
                   bw_stream, bw_open, bw_written, nonBwVars>>

\* Lines 197-199: a read fails; perform_data_transfer returns the Io error.
BwReadErr ==
    /\ bw_pc = "download"
    /\ RoundFailed
    /\ bw_io' = "read_err"
    /\ UNCHANGED <<chunk_size, bw_duration, bw_now, bw_end_time,
                   response_buffer, bytes_read, bw_return, bw_connects,
                   bw_stream, bw_open, bw_written, nonBwVars>>

\* Lines 207-229: the bytes read are counted, the download sample is pushed
\* and the response is verified.  download_start is the instant of the
\* round's upload sample: on this clock the writes take no time.
RoundDone ==
    bw_result' = [bw_result EXCEPT
        !.total_bytes_received = @ + bytes_read,
        !.download_samples =
            Append(@, SpeedSample(bw_result.upload_samples[
                                      Len(bw_result.upload_samples)].timestamp,
                                  bytes_read,
                                  bw_now - bw_result.upload_samples[
                                      Len(bw_result.upload_samples)].timestamp)),
        !.data_integrity_errors =
            IF verify_response_integrity(response_buffer) THEN @ ELSE @ + 1]

BwRoundDone ==
    /\ bw_pc = "downloaded"
    /\ RoundDone
    /\ bw_pc' = "sleep"
    /\ UNCHANGED <<bw_io, chunk_size, bw_duration, bw_now, bw_end_time,
                   response_buffer, bytes_read, bw_return, bw_connects,
                   bw_stream, bw_open, bw_written, nonBwVars>>

\* Lines 114-116: client.connect succeeds; the new stream exists while
\* `stream` still holds the old one.
BwReconnectOk ==
    /\ bw_pc = "reconnect"
    /\ bw_connects' = bw_connects + 1
    /\ bw_open' = bw_open + 1
    /\ bw_pc' = "assign"
    /\ UNCHANGED <<bw_io, chunk_size, bw_duration, bw_now, bw_end_time, bw_result,
                   response_buffer, bytes_read, bw_return, bw_stream,
                   bw_written, nonBwVars>>

\* Line 116: stream = new_stream drops the old stream.
BwAssignStream ==
    /\ bw_pc = "assign"
    /\ bw_stream' = bw_connects
    /\ bw_open' = bw_open - 1
    /\ bw_pc' = "resend"
    /\ UNCHANGED <<bw_io, chunk_size, bw_duration, bw_now, bw_end_time, bw_result,
                   response_buffer, bytes_read, bw_return, bw_connects,
                   bw_written, nonBwVars>>

\* Lines 117-118: the setup request is written to the new stream.
ResendOk ==
    /\ bw_written' = Append(bw_written, <<bw_stream, "setup">>)
    /\ bw_pc' = "sleep"

BwResendOk ==
    /\ bw_pc = "resend"
    /\ ResendOk
    /\ UNCHANGED <<bw_io, chunk_size, bw_duration, bw_now, bw_end_time, bw_result,
                   response_buffer, bytes_read, bw_return, bw_connects,
                   bw_stream, bw_open, nonBwVars>>

\* Lines 118-121, 134-137: the write fails; break, and the result is
\* returned.
BwResendErr ==
    /\ bw_pc = "resend"
    /\ BwReturn(Ok)
    /\ UNCHANGED <<bw_io, chunk_size, bw_duration, bw_now, bw_end_time, bw_result,
                   response_buffer, bytes_read, bw_connects, bw_stream,
                   bw_written, nonBwVars>>

\* Lines 123-126, 134-137: client.connect fails; break, and the result is
\* returned.
BwReconnectErr ==
    /\ bw_pc = "reconnect"
    /\ bw_connects' = bw_connects + 1
    /\ BwReturn(Ok)
    /\ UNCHANGED <<bw_io, chunk_size, bw_duration, bw_now, bw_end_time, bw_result,
                   response_buffer, bytes_read, bw_stream, bw_written,
                   nonBwVars>>

\* Line 131.
BwSleep ==
    /\ bw_pc = "sleep"
    /\ bw_now' = bw_now + RoundDelay
    /\ bw_pc' = "loop"
    /\ UNCHANGED <<bw_io, chunk_size, bw_duration, bw_end_time, bw_result,
                   response_buffer, bytes_read, bw_return, bw_connects,
                   bw_stream, bw_open, bw_written, nonBwVars>>

BwNext ==
    \/ BwInitialConnectOk
    \/ BwInitialConnectErr
    \/ BwSetupOk
    \/ BwSetupErr
    \/ BwRoundStart
    \/ BwLoopExit
    \/ BwUploadOk
    \/ BwUploadHeaderErr
    \/ BwUploadDataErr
    \/ BwRead
    \/ BwReadZero
    \/ BwReadTimeout
    \/ BwReadErr
    \/ BwRoundDone
    \/ BwReconnectOk
    \/ BwAssignStream
    \/ BwResendOk
    \/ BwResendErr
    \/ BwReconnectErr
    \/ BwSleep

(***************************************************************************)
(* ConnectionPerfTest (src/src/tests/connection_perf.rs).                  *)
(* The tasks of one concurrency level run the same code and are counted,   *)
(* not told apart: tasks.spawned were spawned, tasks.running have not      *)
(* finished, tasks.successful and tasks.failed have.                       *)
(***************************************************************************)
\* Against a proxy that may do anything, total_connections is at most this.
MaxTotal == 5

\* vec![2, 5, 10, 20, 50]
concurrent_levels == <<2, 5, 10, 20, 50>>

\* A proxy that may accept, refuse or stall any CONNECT.
AnyProxy == [chaos |-> TRUE, accepts |-> <<0, 0, 0, 0, 0>>]

\* A proxy that accepts every sequential CONNECT and, of the CONNECTs of
\* the i-th concurrency level, the first accepts[i].
Scripted(accepts) == [chaos |-> FALSE, accepts |-> accepts]

\* Scenario S6 of the specification (20 of 20 succeed, 15 of 50), with every
\* lower level succeeding and with lower levels failing.
S6 == [total_connections |-> 50, cp_proxy |-> Scripted(<<2, 5, 10, 20, 15>>)]

S6LowerFail == [total_connections |-> 50, cp_proxy |-> Scripted(<<1, 5, 3, 20, 15>>)]

CpConfigs ==
    { [total_connections |-> n, cp_proxy |-> AnyProxy] : n \in 0..MaxTotal }
    \cup {S6, S6LowerFail}

\* What timeout(15 s, client.connect(target_addr)).await may give when
\* `accepted` CONNECTs of the level were accepted before: Ok(Ok(_)),
\* Ok(Err(e)) or Err(_).
AttemptOutcomes(sequential, accepted) ==
    IF cp_proxy.chaos THEN {"Ok(Ok)", "Ok(Err)", "Err(Elapsed)"}
    ELSE IF sequential \/ accepted < cp_proxy.accepts[level_index] THEN {"Ok(Ok)"}
    ELSE {"Ok(Err)"}

\* An attempt that counts a timeout as a success.
ConnectionAttemptTimeoutSucceeds(outcome) ==
    [success |-> outcome # "Ok(Err)",
     error |-> CASE outcome = "Ok(Ok)" -> "none"
                 [] outcome = "Ok(Err)" -> "error"
                 [] OTHER -> "Connection timeout"]

\* attempt_single_connection_static (lines 234-279): the ConnectionAttempt
\* for an outcome.
ConnectionAttempt(outcome) ==
    [success |-> outcome = "Ok(Ok)",
     error |-> CASE outcome = "Ok(Ok)" -> "none"
                 [] outcome = "Ok(Err)" -> "error"
                 [] OTHER -> "Connection timeout"]

NoTasks == [spawned |-> 0, running |-> 0, successful |-> 0, failed |-> 0]

NoPerfResult ==
    [total_attempts |-> 0, successful_connections |-> 0,
     failed_connections |-> 0, concurrent_test_results |-> <<>>]

CpInit ==
    /\ \E c \in CpConfigs :
           /\ total_connections = c.total_connections
           /\ cp_proxy = c.cp_proxy
    /\ cp_pc = "sequential"
    /\ sequential_results = <<>>
    /\ cp_i = 0
    /\ cp_started = 0
    /\ cp_in_flight = 0
    /\ level_index = 1
    /\ tasks = NoTasks
    /\ concurrent_results = <<>>
    /\ cp_result = NoPerfResult
    /\ best_concurrent = None
    /\ concurrent_score = 0

\* Lines 151-159: the loop of run_sequential_test begins attempt i.
SeqAttemptStart ==
    /\ cp_pc = "sequential"
    /\ cp_i < total_connections
    /\ cp_started' = cp_started + 1
    /\ cp_in_flight' = cp_in_flight + 1
    /\ cp_pc' = "attempt"
    /\ UNCHANGED <<total_connections, cp_proxy, sequential_results, cp_i,
                   level_index, tasks, concurrent_results, cp_result,
                   best_concurrent, concurrent_score, nonCpVars>>

\* The attempt ends with `outcome`; its result is pushed (lines 159-165) and
\* the loop sleeps unless this was the last attempt.
SeqAttemptEnd(outcome) ==
    /\ cp_pc = "attempt"
    /\ outcome \in AttemptOutcomes(TRUE, 0)
    /\ cp_in_flight' = cp_in_flight - 1
    /\ sequential_results' = Append(sequential_results, ConnectionAttempt(outcome))
    /\ cp_pc' = IF cp_i < total_connections - 1 THEN "sleep" ELSE "sequential"
    /\ cp_i' = IF cp_i < total_connections - 1 THEN cp_i ELSE cp_i + 1
    /\ UNCHANGED <<total_connections, cp_proxy, cp_started, level_index,
                   tasks, concurrent_results, cp_result, best_concurrent,
                   concurrent_score, nonCpVars>>

SeqAttemptOk == SeqAttemptEnd("Ok(Ok)")

SeqAttemptErr == SeqAttemptEnd("Ok(Err)")

SeqAttemptTimedOut == SeqAttemptEnd("Err(Elapsed)")

\* Line 164: sleep(100 ms), then the next i.
SeqSleep ==
    /\ cp_pc = "sleep"
    /\ cp_i' = cp_i + 1
    /\ cp_pc' = "sequential"
    /\ UNCHANGED <<total_connections, cp_proxy, sequential_results,
                   cp_started, cp_in_flight, level_index, tasks,
                   concurrent_results, cp_result, best_concurrent,
                   concurrent_score, nonCpVars>>

\* Lines 168, 86-89: run_sequential_test returns; run_concurrent_tests
\* begins.
SeqDone ==
    /\ cp_pc = "sequential"
    /\ ~(cp_i < total_connections)
    /\ cp_pc' = "level"
    /\ UNCHANGED <<total_connections, cp_proxy, sequential_results, cp_i,
                   cp_started, cp_in_flight, level_index, tasks,
                   concurrent_results, cp_result, best_concurrent,
                   concurrent_score, nonCpVars>>

\* Line 175: the next level of concurrent_levels, while there is one.
Level == concurrent_levels[level_index]

\* Lines 176-178: a level above total_connections is skipped.
LevelSkipped ==
    /\ cp_pc = "level"
    /\ level_index <= Len(concurrent_levels)
    /\ Level > total_connections
    /\ level_index' = level_index + 1
    /\ UNCHANGED <<total_connections, cp_proxy, cp_pc, sequential_results,
                   cp_i, cp_started, cp_in_flight, tasks, concurrent_results,
                   cp_result, best_concurrent, concurrent_score, nonCpVars>>

\* Lines 182-183: the level is tested, beginning with no tasks.
LevelStart ==
    /\ cp_pc = "level"
    /\ level_index <= Len(concurrent_levels)
    /\ ~(Level > total_connections)
    /\ tasks' = NoTasks
    /\ cp_pc' = "spawn"
    /\ UNCHANGED <<total_connections, cp_proxy, sequential_results, cp_i,
                   cp_started, cp_in_flight, level_index, concurrent_results,
                   cp_result, best_concurrent, concurrent_score, nonCpVars>>

\* Lines 185-194: one turn of the loop that spawns the level's tasks.
SpawnTask ==
    /\ cp_pc = "spawn"
    /\ tasks.spawned < Level
    /\ tasks' = [tasks EXCEPT !.spawned = @ + 1, !.running = @ + 1]
    /\ cp_in_flight' = cp_in_flight + 1
    /\ UNCHANGED <<total_connections, cp_proxy, cp_pc, sequential_results,
                   cp_i, cp_started, level_index, concurrent_results,
                   cp_result, best_concurrent, concurrent_score, nonCpVars>>

\* Line 196: the loop has run concurrent_level times; join_all is awaited.
AwaitJoinAll ==
    /\ cp_pc = "spawn"
    /\ ~(tasks.spawned < Level)
    /\ cp_pc' = "join_all"
    /\ UNCHANGED <<total_connections, cp_proxy, sequential_results, cp_i,
                   cp_started, cp_in_flight, level_index, tasks,
                   concurrent_results, cp_result, best_concurrent,
                   concurrent_score, nonCpVars>>

\* A spawned task runs on the runtime from the moment it is spawned; its
\* attempt ends with `outcome` (lines 189-191).
TaskEnd(outcome) ==
    /\ cp_pc \in {"spawn", "join_all"}
    /\ tasks.running > 0
    /\ outcome \in AttemptOutcomes(FALSE, tasks.successful)
    /\ tasks' = IF ConnectionAttempt(outcome).success
                THEN [tasks EXCEPT !.running = @ - 1, !.successful = @ + 1]
                ELSE [tasks EXCEPT !.running = @ - 1, !.failed = @ + 1]
    /\ cp_in_flight' = cp_in_flight - 1
    /\ UNCHANGED <<total_connections, cp_proxy, cp_pc, sequential_results,
                   cp_i, cp_started, level_index, concurrent_results,
                   cp_result, best_concurrent, concurrent_score, nonCpVars>>

TaskOk == TaskEnd("Ok(Ok)")

TaskErr == TaskEnd("Ok(Err)")

TaskTimedOut == TaskEnd("Err(Elapsed)")

\* A row that reports no failure.
ConcurrentTestResultNoFailures(concurrent_level, successful) ==
    [concurrent_level |-> concurrent_level,
     successful_connections |-> successful,
     failed_connections |-> 0]

\* Lines 199-203, 219-225: the row's counts from what the tasks returned.

ConcurrentTestResult(concurrent_level, successful) ==
    [concurrent_level |-> concurrent_level,
     successful_connections |-> successful,
     failed_connections |-> concurrent_level - successful]

\* Lines 196-224: join_all returns when every task has finished; the row is
\* pushed and the loop goes to the next level.
JoinAll ==
    /\ cp_pc = "join_all"
    /\ tasks.running = 0
    /\ concurrent_results' =
           Append(concurrent_results, ConcurrentTestResult(Level, tasks.successful))
    /\ level_index' = level_index + 1
    /\ cp_pc' = "level"
    /\ UNCHANGED <<total_connections, cp_proxy, sequential_results, cp_i,
                   cp_started, cp_in_flight, tasks, cp_result,
                   best_concurrent, concurrent_score, nonCpVars>>

\* Lines 91-92: the number of successful attempts among the results.
RECURSIVE CountSuccess(_)
CountSuccess(results) ==
    IF results = <<>> THEN 0
    ELSE (IF Head(results).success THEN 1 ELSE 0) + CountSuccess(Tail(results))

\* Lines 91-145: ConnectionPerfResult from the two phases' results.
ConnectionPerfResult(sequential, concurrent) ==
    [total_attempts |-> total_connections,
     successful_connections |-> CountSuccess(sequential),
     failed_connections |-> Len(sequential) - CountSuccess(sequential),
     concurrent_test_results |-> concurrent]

\* Lines 227, 91-145: run_concurrent_tests returns and the result is built.
PerfResult ==
    /\ cp_pc = "level"
    /\ ~(level_index <= Len(concurrent_levels))
    /\ cp_result' = ConnectionPerfResult(sequential_results, concurrent_results)
    /\ cp_pc' = "print_results"
    /\ UNCHANGED <<total_connections, cp_proxy, sequential_results, cp_i,
                   cp_started, cp_in_flight, level_index, tasks,
                   concurrent_results, best_concurrent, concurrent_score,
                   nonCpVars>>

\* The greatest level among the rows with at least one success.
RECURSIVE max_concurrent_any_success(_)
max_concurrent_any_success(rows) ==
    IF rows = <<>> THEN None
    ELSE LET rest == max_concurrent_any_success(Tail(rows))
             r == Head(rows)
         IN  IF ~(r.successful_connections > 0) THEN rest
             ELSE IF rest.is_some /\ rest.v > r.concurrent_level THEN rest
             ELSE Some(r.concurrent_level)

\* Lines 375-379 and 466-471: filter(successful_connections ==
\* concurrent_level), then the maximum concurrent_level.
RECURSIVE max_concurrent(_)
max_concurrent(rows) ==
    IF rows = <<>> THEN None
    ELSE LET rest == max_concurrent(Tail(rows))
             r == Head(rows)
         IN  IF ~(r.successful_connections = r.concurrent_level) THEN rest
             ELSE IF rest.is_some /\ rest.v > r.concurrent_level THEN rest
             ELSE Some(r.concurrent_level)

\* Lines 466-476: (max_concurrent / 50 * 100).min(100), or 0.
ConcurrentScore(rows) ==
    LET best == max_concurrent(rows)
    IN  IF best.is_some
        THEN (IF (best.v * 100) \div 50 < 100 THEN (best.v * 100) \div 50 ELSE 100)
        ELSE 0

\* Lines 281-, 375-385, 442-479: print_results reports the best level and
\* the score's concurrency term.
PrintResults ==
    /\ cp_pc = "print_results"
    /\ best_concurrent' = max_concurrent(cp_result.concurrent_test_results)
    /\ concurrent_score' = ConcurrentScore(cp_result.concurrent_test_results)
    /\ cp_pc' = "done"
    /\ UNCHANGED <<total_connections, cp_proxy, sequential_results, cp_i,
                   cp_started, cp_in_flight, level_index, tasks,
                   concurrent_results, cp_result, nonCpVars>>

CpNext ==
    \/ SeqAttemptStart
    \/ SeqAttemptOk
    \/ SeqAttemptErr
    \/ SeqAttemptTimedOut
    \/ SeqSleep
    \/ SeqDone
    \/ LevelSkipped
    \/ LevelStart
    \/ SpawnTask
    \/ AwaitJoinAll
    \/ TaskOk
    \/ TaskErr
    \/ TaskTimedOut
    \/ JoinAll
    \/ PerfResult
    \/ PrintResults

(***************************************************************************)
(* DnsStabilityTest (src/src/tests/dns_stability.rs), over a clock counted *)
(* in milliseconds.                                                        *)
(***************************************************************************)
\* test_duration_sec is at most this.
MaxDnsDuration == 3

\* Duration::from_secs(5) around dns_query_via_proxy, in ms.
QueryTimeout == 5000

\* with_timeout(Duration::from_secs(10)) of the probe's client, in ms.
ClientTimeout == 10000

\* A label of 64 bytes.
LongLabel == [i \in 1..64 |-> 120]

\* The domain lists of the runs: none, one, several, one named twice, one
\* with a label that is too long.
DomainLists ==
    { <<>>, <<<<97>>>>, <<<<97>>, <<98>>>>, <<<<97>>, <<98>>, <<99>>>>,
      <<<<97>>, <<97>>, <<98>>>>, <<<<97, 46, 98>>, LongLabel>> }

\* Lines 77-89: a DomainResult with zero counters.
NewDomainResult(domain) ==
    [domain |-> domain, total_queries |-> 0, successful_queries |-> 0,
     failed_queries |-> 0, average_query_time |-> 0, query_times |-> <<>>]

\* The keys of a map built from a list.
Keys(list) == { list[k] : k \in 1..Len(list) }

RECURSIVE SumSeq(_)
SumSeq(times) == IF times = <<>> THEN 0 ELSE Head(times) + SumSeq(Tail(times))

RECURSIVE MinSeq(_)
MinSeq(times) ==
    IF Len(times) = 1 THEN Head(times)
    ELSE LET rest == MinSeq(Tail(times))
         IN  IF Head(times) <= rest THEN Head(times) ELSE rest

RECURSIVE MaxSeq(_)
MaxSeq(times) ==
    IF Len(times) = 1 THEN Head(times)
    ELSE LET rest == MaxSeq(Tail(times))
         IN  IF Head(times) >= rest THEN Head(times) ELSE rest

\* sum / len, or Duration::ZERO for no samples (to the millisecond).
AverageTime(times) == IF times = <<>> THEN 0 ELSE SumSeq(times) \div Len(times)

NoDnsResult ==
    [total_queries |-> 0, successful_queries |-> 0, failed_queries |-> 0,
     timeout_queries |-> 0, domain_results |-> <<>>,
     average_query_time |-> 0, min_query_time |-> 0, max_query_time |-> 0]

DnsInit ==
    /\ domains \in DomainLists
    /\ query_interval \in {1000, 2000}
    /\ dns_duration \in { 1000 * n : n \in 0..MaxDnsDuration }
    /\ dns_now = 0
    /\ dns_end_time = dns_duration
    /\ next_tick = 0
    /\ dns_pc = "loop"
    /\ domain_index = 0
    /\ total_queries = 0
    /\ successful_queries = 0
    /\ failed_queries = 0
    /\ timeout_queries = 0
    /\ domain_results = [d \in Keys(domains) |-> NewDomainResult(d)]
    /\ all_query_times = <<>>
    /\ dns_domain = <<>>
    /\ query_start = 0
    /\ udp_associate_calls = 0
    /\ dns_log = <<>>
    /\ dns_result = NoDnsResult

\* domain.split('.'): the parts of `domain` between its dots, in order; a
\* part starts at 1 or after a dot and ends before the next dot or at the
\* end.
SplitDots(domain) ==
    LET dots == { p \in 1..Len(domain) : domain[p] = 46 }
        starts == {1} \cup { p + 1 : p \in dots }
        StartOf(k) ==
            CHOOSE b \in starts : Cardinality({ t \in starts : t < b }) = k - 1
        EndOf(b) ==
            CHOOSE e \in b..(Len(domain) + 1) :
                /\ e \in dots \cup {Len(domain) + 1}
                /\ \A p \in b..(e - 1) : p \notin dots
    IN  [k \in 1..Cardinality(starts) |->
             SubSeq(domain, StartOf(k), EndOf(StartOf(k)) - 1)]

RECURSIVE EncodeLabels(_)
EncodeLabels(parts) ==
    IF parts = <<>> THEN <<>>
    ELSE <<Len(Head(parts))>> \o Head(parts) \o EncodeLabels(Tail(parts))

\* create_dns_query_packet (lines 250-271): the query packet, or the Config
\* error for a part of more than 63 bytes.
create_dns_query_packet(domain) ==
    LET parts == SplitDots(domain)
    IN  IF \E k \in 1..Len(parts) : Len(parts[k]) > 63
        THEN [kind |-> "Config", packet |-> <<>>]
        ELSE [kind |-> "Ok",
              packet |-> <<18, 52, 1, 0, 0, 1, 0, 0, 0, 0, 0, 0>>
                         \o EncodeLabels(parts) \o <<0>> \o <<0, 1>> \o <<0, 1>>]

\* The payloads the relay may hand back: too short, RCODE 0 (plain, and with
\* the other bits of byte 3 set), RCODE 3 and RCODE 2.
DnsResponses ==
    { <<18, 52, 129, 128, 0, 1, 0, 0, 0, 0, 0>>,
      <<18, 52, 129, 0, 0, 1, 0, 1, 0, 0, 0, 0>>,
      <<18, 52, 129, 128, 0, 1, 0, 1, 0, 0, 0, 0, 1, 97, 0>>,
      <<18, 52, 129, 131, 0, 1, 0, 0, 0, 0, 0, 0>>,
      <<18, 52, 129, 2, 0, 1, 0, 0, 0, 0, 0, 0>> }

\* A variant of lines 233-243 that does not look at the response code.
ResponseErrorLengthOnly(response) ==
    IF Len(response) < 12 THEN "Invalid DNS response" ELSE ""

\* Lines 227-239: what dns_query_via_proxy makes of a received payload.
ResponseError(response) ==
    IF Len(response) < 12 THEN "Invalid DNS response"
    ELSE IF response[4] % 16 # 0 THEN "DNS query failed with code"
    ELSE ""

\* The kinds of error udp_associate may return.  Its own timeout runs from
\* after the 5 s one was armed and is longer, so it never elapses first.
AssociateErrors ==
    {"Connection", "Io", "Socks5"}
    \cup (IF ClientTimeout < QueryTimeout THEN {"Timeout"} ELSE {})

\* .map_err(|e| NetworkTestError::Connection(..)), lines 209-225.
MapErrConnection(kind) == "Connection"

\* Lines 113-115 and 141-180: the loop is left and the result is built.
DnsStabilityResult ==
    [total_queries |-> total_queries,
     successful_queries |-> successful_queries,
     failed_queries |-> failed_queries,
     timeout_queries |-> timeout_queries,
     domain_results |->
         [d \in DOMAIN domain_results |->
              [domain_results[d] EXCEPT
                   !.average_query_time =
                       IF domain_results[d].query_times # <<>>
                       THEN AverageTime(domain_results[d].query_times)
                       ELSE @]],
     average_query_time |-> AverageTime(all_query_times),
     min_query_time |-> IF all_query_times = <<>> THEN 0 ELSE MinSeq(all_query_times),
     max_query_time |-> IF all_query_times = <<>> THEN 0 ELSE MaxSeq(all_query_times)]

\* Line 110: the while condition is false.
DnsLoopExit ==
    /\ dns_pc = "loop"
    /\ ~(dns_now < dns_end_time)
    /\ dns_result' = DnsStabilityResult
    /\ dns_pc' = "done"
    /\ UNCHANGED <<domains, query_interval, dns_duration, dns_now,
                   dns_end_time, next_tick, domain_index, total_queries,
                   successful_queries, failed_queries, timeout_queries,
                   domain_results, all_query_times, dns_domain, query_start,
                   udp_associate_calls, dns_log, nonDnsVars>>

\* A tick with no domains that goes round the loop again.
DnsTickNoDomainsNoBreak ==
    /\ dns_pc = "loop"
    /\ dns_now < dns_end_time
    /\ domains = <<>>
    /\ dns_now' = IF dns_now < next_tick THEN next_tick ELSE dns_now
    /\ next_tick' = next_tick + query_interval
    /\ UNCHANGED <<domains, query_interval, dns_duration, dns_end_time,
                   dns_pc, domain_index, total_queries, successful_queries,
                   failed_queries, timeout_queries, domain_results,
                   all_query_times, dns_domain, query_start,
                   udp_associate_calls, dns_log, dns_result, nonDnsVars>>

\* Lines 111-115: the tick is awaited; with no domains the loop breaks.
DnsTickNoDomains ==
    /\ dns_pc = "loop"
    /\ dns_now < dns_end_time
    /\ domains = <<>>
    /\ dns_now' = IF dns_now < next_tick THEN next_tick ELSE dns_now
    /\ next_tick' = next_tick + query_interval
    /\ dns_result' = DnsStabilityResult
    /\ dns_pc' = "done"
    /\ UNCHANGED <<domains, query_interval, dns_duration, dns_end_time,
                   domain_index, total_queries, successful_queries,
                   failed_queries, timeout_queries, domain_results,
                   all_query_times, dns_domain, query_start,
                   udp_associate_calls, dns_log, nonDnsVars>>

\* The domain of the tick when every tick asks for the first domain.
TickDomainFirst == domains[1]

\* Line 117: &self.domains[domain_index % self.domains.len()].
TickDomain == domains[(domain_index % Len(domains)) + 1]

\* Lines 111-125: the tick is awaited (a missed tick fires at once), the
\* domain is chosen, the counters of the query are raised and
\* perform_dns_query is entered.
DnsTick ==
    /\ dns_pc = "loop"
    /\ dns_now < dns_end_time
    /\ domains # <<>>
    /\ dns_now' = IF dns_now < next_tick THEN next_tick ELSE dns_now
    /\ next_tick' = next_tick + query_interval
    /\ dns_domain' = TickDomain
    /\ domain_index' = domain_index + 1
    /\ total_queries' = total_queries + 1
    /\ domain_results' = [domain_results EXCEPT ![TickDomain].total_queries = @ + 1]
    /\ query_start' = dns_now'
    /\ dns_pc' = "udp_associate"
    /\ UNCHANGED <<domains, query_interval, dns_duration, dns_end_time,
                   successful_queries, failed_queries, timeout_queries,
                   all_query_times, udp_associate_calls, dns_log, dns_result,
                   nonDnsVars>>

\* The match of run_dns_test with every error counted as a failure.
MatchQueryNoTimeouts(r) ==
    /\ successful_queries' = successful_queries + (IF r.kind = "Ok" THEN 1 ELSE 0)
    /\ timeout_queries' = timeout_queries
    /\ failed_queries' = failed_queries + (IF r.kind # "Ok" THEN 1 ELSE 0)
    /\ domain_results' =
           [domain_results EXCEPT ![dns_domain] =
                IF r.kind = "Ok"
                THEN [@ EXCEPT !.successful_queries = @ + 1,
                               !.query_times = Append(@, r.query_time)]
                ELSE [@ EXCEPT !.failed_queries = @ + 1]]
    /\ all_query_times' =
           IF r.kind = "Ok" THEN Append(all_query_times, r.query_time)
           ELSE all_query_times

\* Lines 125-145: the match on perform_dns_query's result r, Ok(query_time)
\* or Err of some kind.
MatchQuery(r) ==
    /\ successful_queries' = successful_queries + (IF r.kind = "Ok" THEN 1 ELSE 0)
    /\ timeout_queries' = timeout_queries + (IF r.kind = "Timeout" THEN 1 ELSE 0)
    /\ failed_queries' =
           failed_queries + (IF r.kind \notin {"Ok", "Timeout"} THEN 1 ELSE 0)
    /\ domain_results' =
           [domain_results EXCEPT ![dns_domain] =
                IF r.kind = "Ok"
                THEN [@ EXCEPT !.successful_queries = @ + 1,
                               !.query_times = Append(@, r.query_time)]
                ELSE [@ EXCEPT !.failed_queries = @ + 1]]
    /\ all_query_times' =
           IF r.kind = "Ok" THEN Append(all_query_times, r.query_time)
           ELSE all_query_times

\* perform_dns_query returns r at time t (lines 193-200); the loop goes on.
QueryReturns(r, t) ==
    /\ MatchQuery(r)
    /\ dns_now' = t
    /\ dns_log' = Append(dns_log, [domain |-> dns_domain, kind |-> r.kind,
                                   at |-> dns_pc, received |-> r.received,
                                   took |-> t - query_start])
    /\ dns_pc' = "loop"
    /\ UNCHANGED <<domains, query_interval, dns_duration, dns_end_time,
                   next_tick, domain_index, total_queries, dns_domain,
                   query_start, dns_result, nonDnsVars>>

\* The results of perform_dns_query, with the payload recv_from handed to
\* dns_query_via_proxy, if one was received.
QueryOk(query_time) ==
    [kind |-> "Ok", query_time |-> query_time, received |-> None]

QueryErr(kind) == [kind |-> kind, query_time |-> 0, received |-> None]

Received(r, response) == [r EXCEPT !.received = Some(response)]

\* A step inside dns_query_via_proxy that goes on to `next`.
QueryGoesOn(next) ==
    /\ dns_pc' = next
    /\ UNCHANGED <<domains, query_interval, dns_duration, dns_now,
                   dns_end_time, next_tick, domain_index, total_queries,
                   successful_queries, failed_queries, timeout_queries,
                   domain_results, all_query_times, dns_domain, query_start,
                   dns_log, dns_result, nonDnsVars>>

\* Line 211: client.udp_associate() returns a relay.
UdpAssociateOk ==
    /\ dns_pc = "udp_associate"
    /\ udp_associate_calls' = udp_associate_calls + 1
    /\ QueryGoesOn("create_packet")

\* Lines 211-213: client.udp_associate() fails; the error becomes a
\* Connection error.
UdpAssociateErr ==
    /\ dns_pc = "udp_associate"
    /\ udp_associate_calls' = udp_associate_calls + 1
    /\ \E kind \in AssociateErrors :
           QueryReturns(QueryErr(MapErrConnection(kind)), dns_now)

\* Lines 189-199: the 5 s elapse while client.udp_associate() is pending.
UdpAssociateTimedOut ==
    /\ dns_pc = "udp_associate"
    /\ udp_associate_calls' = udp_associate_calls + 1
    /\ QueryReturns(QueryErr("Timeout"), query_start + QueryTimeout)

\* Line 215: the query packet is built.
PacketBuilt ==
    /\ dns_pc = "create_packet"
    /\ create_dns_query_packet(dns_domain).kind = "Ok"
    /\ UNCHANGED udp_associate_calls
    /\ QueryGoesOn("send_to")

\* Line 215: create_dns_query_packet(domain)? returns its Config error.
PacketErr ==
    /\ dns_pc = "create_packet"
    /\ create_dns_query_packet(dns_domain).kind # "Ok"
    /\ UNCHANGED udp_associate_calls
    /\ QueryReturns(QueryErr(create_dns_query_packet(dns_domain).kind), dns_now)

\* Lines 217-222: the query is sent.
DnsSendOk ==
    /\ dns_pc = "send_to"
    /\ UNCHANGED udp_associate_calls
    /\ QueryGoesOn("recv_from")

DnsSendErr ==
    /\ dns_pc = "send_to"
    /\ UNCHANGED udp_associate_calls
    /\ \E kind \in {"Io", "Socks5", "Config"} :
           QueryReturns(QueryErr(MapErrConnection(kind)), dns_now)

\* Lines 224-245: a datagram arrives within the 5 s, at once or after 1 s,
\* and its payload passes the checks.
DnsRecvOk ==
    /\ dns_pc = "recv_from"
    /\ UNCHANGED udp_associate_calls
    /\ \E response \in DnsResponses, delay \in {0, 1000} :
           /\ dns_now + delay - query_start < QueryTimeout
           /\ ResponseError(response) = ""
           /\ QueryReturns(Received(QueryOk(dns_now + delay - query_start),
                                   response), dns_now + delay)

\* Lines 233-243: the payload is too short or its RCODE is not 0.
DnsRecvInvalid ==
    /\ dns_pc = "recv_from"
    /\ UNCHANGED udp_associate_calls
    /\ \E response \in DnsResponses :
           /\ ResponseError(response) # ""
           /\ QueryReturns(Received(QueryErr("Connection"), response), dns_now)

\* Lines 225-231: recv_from fails.
DnsRecvErr ==
    /\ dns_pc = "recv_from"
    /\ UNCHANGED udp_associate_calls
    /\ \E kind \in {"Io", "Socks5"} :
           QueryReturns(QueryErr(MapErrConnection(kind)), dns_now)

\* Lines 189-199: the 5 s elapse while recv_from is pending.
DnsRecvTimedOut ==
    /\ dns_pc = "recv_from"
    /\ UNCHANGED udp_associate_calls
    /\ QueryReturns(QueryErr("Timeout"), query_start + QueryTimeout)

DnsNext ==
    \/ DnsLoopExit
    \/ DnsTickNoDomains
    \/ DnsTick
    \/ UdpAssociateOk
    \/ UdpAssociateErr
    \/ UdpAssociateTimedOut
    \/ PacketBuilt
    \/ PacketErr
    \/ DnsSendOk
    \/ DnsSendErr
    \/ DnsRecvOk
    \/ DnsRecvInvalid
    \/ DnsRecvErr
    \/ DnsRecvTimedOut

(***************************************************************************)
(* The statistics of the probes: calculate_jitter, calculate_median and    *)
(* calculate_percentile of NetworkJitterTest (network_jitter.rs), the      *)
(* latter two the same in ConnectionPerfTest (connection_perf.rs).  A      *)
(* Duration is a whole number of nanoseconds; Duration / n truncates.      *)
(***************************************************************************)
\* Exhaustive sample sets have at most this many samples.
MaxSamples == 4

SampleValues == {0, 1, 4, 9}

\* Longer sample sets, for the percentiles that are not the maximum.
LongSamples ==
    { [i \in 1..12 |-> ((i * 7) % 12) * 5],
      [i \in 1..60 |-> (i * 37) % 60],
      [i \in 1..51 |-> 4],
      [i \in 1..21 |-> IF i % 2 = 0 THEN 3 ELSE 8] }

\* Duration::abs_diff
AbsDiff(a, b) == IF a >= b THEN a - b ELSE b - a

\* The sum of samples[lo..hi].
RECURSIVE SumRange(_, _, _)
SumRange(times, lo, hi) ==
    IF lo > hi THEN 0
    ELSE IF lo = hi THEN times[lo]
    ELSE SumRange(times, lo, (lo + hi) \div 2)
         + SumRange(times, ((lo + hi) \div 2) + 1, hi)

\* to_vec() and sort(): the k-th smallest sample, for every k.
SortSamples(times) ==
    [k \in 1..Len(times) |->
         CHOOSE v \in { times[i] : i \in 1..Len(times) } :
             /\ Cardinality({ i \in 1..Len(times) : times[i] < v }) < k
             /\ k <= Cardinality({ i \in 1..Len(times) : times[i] <= v })]

\* The jitter as the mean of the differences from the first sample.
calculate_jitter_from_first(rtt_samples) ==
    IF Len(rtt_samples) < 2 THEN 0
    ELSE SumRange([i \in 1..(Len(rtt_samples) - 1) |->
                       AbsDiff(rtt_samples[i + 1], rtt_samples[1])],
                  1, Len(rtt_samples) - 1)
         \div (Len(rtt_samples) - 1)

\* calculate_jitter (network_jitter.rs 290-309).
calculate_jitter(rtt_samples) ==
    IF Len(rtt_samples) < 2 THEN 0
    ELSE LET jitter_sum ==
                 SumRange([i \in 1..(Len(rtt_samples) - 1) |->
                               AbsDiff(rtt_samples[i + 1], rtt_samples[i])],
                          1, Len(rtt_samples) - 1)
             jitter_count == Len(rtt_samples) - 1
         IN  IF jitter_count > 0 THEN jitter_sum \div jitter_count ELSE 0

\* calculate_median (network_jitter.rs 311-325, connection_perf.rs
\* 399-413); sorted_samples[mid] is the (mid + 1)-th sample.
calculate_median(rtt_samples) ==
    IF rtt_samples = <<>> THEN 0
    ELSE LET sorted_samples == SortSamples(rtt_samples)
             mid == Len(sorted_samples) \div 2
         IN  IF Len(sorted_samples) % 2 = 0
             THEN (sorted_samples[mid] + sorted_samples[mid + 1]) \div 2
             ELSE sorted_samples[mid + 1]

\* f64::round of percentile / 100 * m, for a whole percentile and m >= 0
\* (the halves go up).
RoundedRank(percentile, m) == (2 * percentile * m + 100) \div 200

\* The percentile that truncates the rank.
calculate_percentile_floor(rtt_samples, percentile) ==
    IF rtt_samples = <<>> THEN 0
    ELSE SortSamples(rtt_samples)[((percentile * (Len(rtt_samples) - 1)) \div 100) + 1]

\* calculate_percentile (network_jitter.rs 327-337, connection_perf.rs
\* 415-425).
calculate_percentile(rtt_samples, percentile) ==
    IF rtt_samples = <<>> THEN 0
    ELSE LET sorted_samples == SortSamples(rtt_samples)
             index == RoundedRank(percentile, Len(sorted_samples) - 1)
         IN  sorted_samples[(IF index < Len(sorted_samples) - 1
                             THEN index ELSE Len(sorted_samples) - 1) + 1]

\* network_jitter.rs 185-200 (connection_perf.rs 110-125): average, min and
\* max of the samples, Duration::ZERO for none.
Summary(times) ==
    [average |-> IF times # <<>> THEN SumRange(times, 1, Len(times)) \div Len(times)
                 ELSE 0,
     min |-> IF times = <<>> THEN 0 ELSE SortSamples(times)[1],
     max |-> IF times = <<>> THEN 0 ELSE SortSamples(times)[Len(times)]]

NotComputed == 0 - 1

StatInit ==
    /\ samples \in UNION { [1..n -> SampleValues] : n \in 0..MaxSamples }
                   \cup LongSamples
    /\ st_pc = "samples"
    /\ st_jitter = NotComputed
    /\ st_median = NotComputed
    /\ st_p95 = NotComputed
    /\ st_p99 = NotComputed
    /\ st_summary = [average |-> NotComputed, min |-> NotComputed, max |-> NotComputed]

\* network_jitter.rs 185-202: the result's average, min, max, median and
\* jitter.
CalculateSummary ==
    /\ st_pc = "samples"
    /\ st_summary' = Summary(samples)
    /\ st_pc' = "median"
    /\ UNCHANGED <<samples, st_jitter, st_median, st_p95, st_p99, nonStatVars>>

CalculateMedian ==
    /\ st_pc = "median"
    /\ st_median' = calculate_median(samples)
    /\ st_pc' = "jitter"
    /\ UNCHANGED <<samples, st_jitter, st_p95, st_p99, st_summary, nonStatVars>>

CalculateJitter ==
    /\ st_pc = "jitter"
    /\ st_jitter' = calculate_jitter(samples)
    /\ st_pc' = "percentiles"
    /\ UNCHANGED <<samples, st_median, st_p95, st_p99, st_summary, nonStatVars>>

\* network_jitter.rs 386-387, connection_perf.rs 316-319.
CalculatePercentiles ==
    /\ st_pc = "percentiles"
    /\ st_p95' = calculate_percentile(samples, 95)
    /\ st_p99' = calculate_percentile(samples, 99)
    /\ st_pc' = "done"
    /\ UNCHANGED <<samples, st_jitter, st_median, st_summary, nonStatVars>>

StatNext ==
    \/ CalculateSummary
    \/ CalculateMedian
    \/ CalculateJitter
    \/ CalculatePercentiles

(***************************************************************************)
(* The jitter probe (src/src/tests/network_jitter.rs), over a clock        *)
(* counted in milliseconds.                                                *)
(***************************************************************************)
MaxJitDuration == 2

\* timeout(Duration::from_secs(5), ..) of perform_ping, in ms.
PingTimeout == 5000

\* timeout(Duration::from_millis(1000), stream.read(..)).
ResponseTimeoutMs == 1000

\* "timeout"
TimeoutWord ==
    <<116, 105, 109, 101, 111, 117, 116>>

\* "Connection error: " (lib.rs 14)
ConnectionPrefix ==
    <<67, 111, 110, 110, 101, 99, 116, 105, 111, 110, 32, 101, 114, 114,
      111, 114, 58, 32>>

\* "IO error: " (lib.rs 18)
IoPrefix ==
    <<73, 79, 32, 101, 114, 114, 111, 114, 58, 32>>

\* "Timeout error: " (lib.rs 20)
TimeoutPrefix ==
    <<84, 105, 109, 101, 111, 117, 116, 32, 101, 114, 114, 111, 114, 58,
      32>>

\* "Failed to connect to target: "
FailedToConnect ==
    <<70, 97, 105, 108, 101, 100, 32, 116, 111, 32, 99, 111, 110, 110,
      101, 99, 116, 32, 116, 111, 32, 116, 97, 114, 103, 101, 116, 58,
      32>>

\* client.connect's error when the proxy refuses the TCP connection
ProxyRefused ==
    <<67, 111, 110, 110, 101, 99, 116, 105, 111, 110, 32, 101, 114, 114,
      111, 114, 58, 32, 70, 97, 105, 108, 101, 100, 32, 116, 111, 32, 99,
      111, 110, 110, 101, 99, 116, 32, 116, 111, 32, 112, 114, 111, 120,
      121, 58, 32, 67, 111, 110, 110, 101, 99, 116, 105, 111, 110, 32,
      114, 101, 102, 117, 115, 101, 100, 32, 40, 111, 115, 32, 101, 114,
      114, 111, 114, 32, 49, 49, 49, 41>>

\* client.connect's error for the reply code 0x06
TtlExpired ==
    <<83, 79, 67, 75, 83, 53, 32, 101, 114, 114, 111, 114, 58, 32, 84, 84,
      76, 32, 101, 120, 112, 105, 114, 101, 100>>

\* an io::Error of write_all
BrokenPipe ==
    <<66, 114, 111, 107, 101, 110, 32, 112, 105, 112, 101, 32, 40, 111,
      115, 32, 101, 114, 114, 111, 114, 32, 51, 50, 41>>

\* an io::Error of read
ConnectionReset ==
    <<67, 111, 110, 110, 101, 99, 116, 105, 111, 110, 32, 114, 101, 115,
      101, 116, 32, 98, 121, 32, 112, 101, 101, 114, 32, 40, 111, 115, 32,
      101, 114, 114, 111, 114, 32, 49, 48, 52, 41>>

\* "Response timeout"
ResponseTimeout ==
    <<82, 101, 115, 112, 111, 110, 115, 101, 32, 116, 105, 109, 101, 111,
      117, 116>>

\* "Connection closed by peer"
ClosedByPeer ==
    <<67, 111, 110, 110, 101, 99, 116, 105, 111, 110, 32, 99, 108, 111,
      115, 101, 100, 32, 98, 121, 32, 112, 101, 101, 114>>

\* "Configuration error: " (lib.rs 22)
ConfigPrefix ==
    <<67, 111, 110, 102, 105, 103, 117, 114, 97, 116, 105, 111, 110, 32,
      101, 114, 114, 111, 114, 58, 32>>

\* "Invalid address format: "
InvalidAddressFormat ==
    <<73, 110, 118, 97, 108, 105, 100, 32, 97, 100, 100, 114, 101, 115,
      115, 32, 102, 111, 114, 109, 97, 116, 58, 32>>

\* "Invalid port: "
InvalidPort ==
    <<73, 110, 118, 97, 108, 105, 100, 32, 112, 111, 114, 116, 58, 32>>

\* "timeout": a target without a port.
TargetWithoutPort ==
    <<116, 105, 109, 101, 111, 117, 116>>

\* The target lists of the model: "a:1", "b:2" and "timeout".
TargetLists ==
    { <<>>, << <<97, 58, 49>> >>, << <<97, 58, 49>>, <<98, 58, 50>> >>,
      << TargetWithoutPort >> }

NewTargetResult(target) ==
    [target |-> target, total_pings |-> 0, successful_pings |-> 0,
     failed_pings |-> 0, rtt_samples |-> <<>>, average_rtt |-> 0,
     jitter |-> 0, packet_loss_rate |-> [num |-> 0, den |-> 1]]

\* failed / total * 100.0 as a fraction, 0.0 for no pings.
LossRate(failed, total) ==
    IF total > 0 THEN [num |-> failed * 100, den |-> total]
    ELSE [num |-> 0, den |-> 1]

NoJitterResult ==
    [total_pings |-> 0, successful_pings |-> 0, failed_pings |-> 0,
     timeout_pings |-> 0, rtt_samples |-> <<>>, average_rtt |-> 0,
     min_rtt |-> 0, max_rtt |-> 0, median_rtt |-> 0, jitter |-> 0,
     packet_loss_rate |-> [num |-> 0, den |-> 1], target_results |-> <<>>]

\* Lines 89-117 of run_jitter_test.
JitInit ==
    /\ targets \in TargetLists
    /\ ping_interval \in {1000, 2000}
    /\ jit_duration \in { 1000 * n : n \in 0..MaxJitDuration }
    /\ jit_now = 0
    /\ jit_end_time = jit_duration
    /\ jit_next_tick = 0
    /\ jit_pc = "loop"
    /\ target_index = 0
    /\ total_pings = 0
    /\ successful_pings = 0
    /\ failed_pings = 0
    /\ timeout_pings = 0
    /\ all_rtt_samples = <<>>
    /\ target_results = [t \in Keys(targets) |-> NewTargetResult(t)]
    /\ jit_target = <<>>
    /\ ping_start = 0
    /\ jit_stream = 0
    /\ jit_connects = 0
    /\ jit_open = {}
    /\ jit_log = <<>>
    /\ jit_result = NoJitterResult

\* Display of NetworkTestError (lib.rs 12-24).
ErrorToString(e) ==
    (CASE e.kind = "Connection" -> ConnectionPrefix
       [] e.kind = "Io" -> IoPrefix
       [] e.kind = "Timeout" -> TimeoutPrefix
       [] e.kind = "Config" -> ConfigPrefix) \o e.text

NetworkTestError(kind, text) == [kind |-> kind, text |-> text]

\* perform_ping's three results (lines 235-257).  `cause` is no field of
\* PingResult: it keeps what the result was made from, the kind of the
\* error of tcp_ping_via_proxy or the Elapsed of the 5 s timeout.
PingSuccess(rtt) ==
    [success |-> TRUE, rtt |-> Some(rtt), error |-> None, cause |-> "none"]

PingFailure(e) ==
    [success |-> FALSE, rtt |-> None, error |-> Some(ErrorToString(e)),
     cause |-> e.kind]

PingElapsed ==
    [success |-> FALSE, rtt |-> None, error |-> Some(TimeoutWord),
     cause |-> "Elapsed"]

\* Lines 171-223: the result run_jitter_test returns.
NetworkJitterResult ==
    [total_pings |-> total_pings,
     successful_pings |-> successful_pings,
     failed_pings |-> failed_pings,
     timeout_pings |-> timeout_pings,
     rtt_samples |-> all_rtt_samples,
     average_rtt |-> AverageTime(all_rtt_samples),
     min_rtt |-> IF all_rtt_samples = <<>> THEN 0 ELSE MinSeq(all_rtt_samples),
     max_rtt |-> IF all_rtt_samples = <<>> THEN 0 ELSE MaxSeq(all_rtt_samples),
     median_rtt |-> calculate_median(all_rtt_samples),
     jitter |-> calculate_jitter(all_rtt_samples),
     packet_loss_rate |-> LossRate(failed_pings + timeout_pings, total_pings),
     target_results |->
         [t \in DOMAIN target_results |->
              [target_results[t] EXCEPT
                   !.average_rtt =
                       IF target_results[t].rtt_samples # <<>>
                       THEN AverageTime(target_results[t].rtt_samples)
                       ELSE @,
                   !.jitter =
                       IF target_results[t].rtt_samples # <<>>
                       THEN calculate_jitter(target_results[t].rtt_samples)
                       ELSE @,
                   !.packet_loss_rate =
                       LossRate(target_results[t].failed_pings,
                                target_results[t].total_pings)]]]

\* Line 119: the while condition is false.
JitLoopExit ==
    /\ jit_pc = "loop"
    /\ ~(jit_now < jit_end_time)
    /\ jit_result' = NetworkJitterResult
    /\ jit_pc' = "done"
    /\ UNCHANGED <<targets, ping_interval, jit_duration, jit_now,
                   jit_end_time, jit_next_tick, target_index, total_pings,
                   successful_pings, failed_pings, timeout_pings,
                   all_rtt_samples, target_results, jit_target, ping_start,
                   jit_stream, jit_connects, jit_open, jit_log, nonJitVars>>

\* Lines 120-124: the tick is awaited; with no targets the loop breaks.
JitTickNoTargets ==
    /\ jit_pc = "loop"
    /\ jit_now < jit_end_time
    /\ targets = <<>>
    /\ jit_now' = IF jit_now < jit_next_tick THEN jit_next_tick ELSE jit_now
    /\ jit_next_tick' = jit_next_tick + ping_interval
    /\ jit_result' = NetworkJitterResult
    /\ jit_pc' = "done"
    /\ UNCHANGED <<targets, ping_interval, jit_duration, jit_end_time,
                   target_index, total_pings, successful_pings, failed_pings,
                   timeout_pings, all_rtt_samples, target_results, jit_target,
                   ping_start, jit_stream, jit_connects, jit_open, jit_log,
                   nonJitVars>>

\* Line 126: &self.targets[target_index % self.targets.len()].
TickTarget == targets[(target_index % Len(targets)) + 1]

\* Lines 120-133 and 227-231: the tick is awaited (a missed tick fires at
\* once), the target is chosen, the counters of the ping are raised,
\* perform_ping takes ping_start and tcp_ping_via_proxy is entered.
JitTick ==
    /\ jit_pc = "loop"
    /\ jit_now < jit_end_time
    /\ targets # <<>>
    /\ jit_now' = IF jit_now < jit_next_tick THEN jit_next_tick ELSE jit_now
    /\ jit_next_tick' = jit_next_tick + ping_interval
    /\ jit_target' = TickTarget
    /\ target_index' = target_index + 1
    /\ total_pings' = total_pings + 1
    /\ target_results' = [target_results EXCEPT ![TickTarget].total_pings = @ + 1]
    /\ ping_start' = jit_now'
    /\ jit_pc' = "connect"
    /\ UNCHANGED <<targets, ping_interval, jit_duration, jit_end_time,
                   successful_pings, failed_pings, timeout_pings,
                   all_rtt_samples, jit_stream, jit_connects, jit_open,
                   jit_log, jit_result, nonJitVars>>

\* The match of run_jitter_test when a ping that timed out is counted as a
\* timeout and as a failure.
MatchPingTimeoutAlsoFailed(r) ==
    /\ successful_pings' = successful_pings + (IF r.success THEN 1 ELSE 0)
    /\ timeout_pings' =
           timeout_pings
           + (IF ~r.success /\ Contains(r.error.v, TimeoutWord) THEN 1 ELSE 0)
    /\ failed_pings' = failed_pings + (IF ~r.success THEN 1 ELSE 0)
    /\ target_results' =
           [target_results EXCEPT ![jit_target] =
                IF r.success
                THEN [@ EXCEPT !.successful_pings = @ + 1,
                               !.rtt_samples = Append(@, r.rtt.v)]
                ELSE [@ EXCEPT !.failed_pings = @ + 1]]
    /\ all_rtt_samples' =
           IF r.success THEN Append(all_rtt_samples, r.rtt.v)
           ELSE all_rtt_samples

\* Lines 133-168: the match on perform_ping's result Ok(r).  perform_ping
\* returns no Err, and every r it builds is matched by one of the first two
\* arms.
MatchPing(r) ==
    /\ successful_pings' =
           successful_pings + (IF r.success /\ r.rtt.is_some THEN 1 ELSE 0)
    /\ timeout_pings' =
           timeout_pings
           + (IF ~r.success /\ r.error.is_some
                 /\ Contains(r.error.v, TimeoutWord) THEN 1 ELSE 0)
    /\ failed_pings' =
           failed_pings
           + (IF r.success /\ r.rtt.is_some THEN 0
              ELSE IF ~r.success /\ r.error.is_some
                   THEN (IF Contains(r.error.v, TimeoutWord) THEN 0 ELSE 1)
              ELSE 1)
    /\ target_results' =
           [target_results EXCEPT ![jit_target] =
                IF r.success /\ r.rtt.is_some
                THEN [@ EXCEPT !.successful_pings = @ + 1,
                               !.rtt_samples = Append(@, r.rtt.v)]
                ELSE [@ EXCEPT !.failed_pings = @ + 1]]
    /\ all_rtt_samples' =
           IF r.success /\ r.rtt.is_some THEN Append(all_rtt_samples, r.rtt.v)
           ELSE all_rtt_samples

\* perform_ping returns r at time t: tcp_ping_via_proxy has returned or was
\* cancelled, so its `stream` has been dropped and the tunnel closed; the
\* loop goes on.
PingReturns(r, t) ==
    /\ MatchPing(r)
    /\ jit_now' = t
    /\ jit_stream' = 0
    /\ jit_open' = jit_open \ {jit_stream}
    /\ jit_log' = Append(jit_log, [target |-> jit_target, tunnel |-> jit_stream,
                                   success |-> r.success, error |-> r.error,
                                   cause |-> r.cause, at |-> jit_pc])
    /\ jit_pc' = "loop"
    /\ UNCHANGED <<targets, ping_interval, jit_duration, jit_end_time,
                   jit_next_tick, target_index, total_pings, jit_target,
                   ping_start, jit_result, nonJitVars>>

\* A step inside tcp_ping_via_proxy that goes on to `next`.
PingGoesOn(next) ==
    /\ jit_pc' = next
    /\ UNCHANGED <<targets, ping_interval, jit_duration, jit_end_time,
                   jit_next_tick, target_index, total_pings, successful_pings,
                   failed_pings, timeout_pings, all_rtt_samples,
                   target_results, jit_target, ping_start, jit_log,
                   jit_result, nonJitVars>>

\* Line 261: client.connect(target) returns a tunnel after 10 ms.
PingConnectOk ==
    /\ jit_pc = "connect"
    /\ parse_address(jit_target).ok
    /\ jit_connects' = jit_connects + 1
    /\ jit_stream' = jit_connects + 1
    /\ jit_open' = jit_open \cup {jit_connects + 1}
    /\ jit_now' = jit_now + 10
    /\ PingGoesOn("write_all")

\* socks5.rs 363-373: the text of parse_address's error for addr.
ParseAddressError(addr) ==
    IF RSplitAt(addr) = 0 THEN InvalidAddressFormat \o addr
    ELSE InvalidPort \o SubSeq(addr, RSplitAt(addr) + 1, Len(addr))

\* socks5.rs 184 and 219-251: the errors of socks5_connect once the
\* handshake is done, as Display writes them: parse_address's error when
\* the target has none, else an error reply of the proxy.
ConnectRequestErrors(target) ==
    IF parse_address(target).ok THEN {TtlExpired}
    ELSE {ErrorToString(NetworkTestError("Config", ParseAddressError(target)))}

\* Lines 261-263: client.connect(target) fails.
PingConnectErr ==
    /\ jit_pc = "connect"
    /\ jit_connects' = jit_connects + 1
    /\ \E e \in {ProxyRefused} \cup ConnectRequestErrors(jit_target) :
           PingReturns(PingFailure(NetworkTestError("Connection",
                                                    FailedToConnect \o e)),
                       jit_now)

\* Lines 229-233 and 251-256: the 5 s elapse while client.connect(target)
\* or write_all is pending.  (The read gives up after 1 s, and the client's
\* own 10 s timeout is the longer one.)
PingTimedOut ==
    /\ jit_pc \in {"connect", "write_all"}
    /\ jit_connects' = jit_connects + (IF jit_pc = "connect" THEN 1 ELSE 0)
    /\ PingReturns(PingElapsed, ping_start + PingTimeout)

\* Lines 265-269: PING\n is written.
PingWriteOk ==
    /\ jit_pc = "write_all"
    /\ UNCHANGED <<jit_now, jit_stream, jit_connects, jit_open>>
    /\ PingGoesOn("read")

PingWriteErr ==
    /\ jit_pc = "write_all"
    /\ UNCHANGED jit_connects
    /\ PingReturns(PingFailure(NetworkTestError("Io", BrokenPipe)), jit_now)

\* Lines 271-287 and 236-243: bytes arrive within the second, at once or
\* after 30 ms.
PingReadOk ==
    /\ jit_pc = "read"
    /\ UNCHANGED jit_connects
    /\ \E delay \in {0, 30} :
           /\ delay < ResponseTimeoutMs
           /\ PingReturns(PingSuccess(jit_now + delay - ping_start),
                          jit_now + delay)

\* Lines 280-284: read returns 0 bytes.
PingReadZero ==
    /\ jit_pc = "read"
    /\ UNCHANGED jit_connects
    /\ PingReturns(PingFailure(NetworkTestError("Connection", ClosedByPeer)),
                   jit_now)

\* Line 278: read fails.
PingReadErr ==
    /\ jit_pc = "read"
    /\ UNCHANGED jit_connects
    /\ PingReturns(PingFailure(NetworkTestError("Io", ConnectionReset)), jit_now)

\* Lines 272-277: nothing arrives within the second.
PingReadTimedOut ==
    /\ jit_pc = "read"
    /\ UNCHANGED jit_connects
    /\ PingReturns(PingFailure(NetworkTestError("Timeout", ResponseTimeout)),
                   jit_now + ResponseTimeoutMs)

JitNext ==
    \/ JitLoopExit
    \/ JitTickNoTargets
    \/ JitTick
    \/ PingConnectOk
    \/ PingConnectErr
    \/ PingTimedOut
    \/ PingWriteOk
    \/ PingWriteErr
    \/ PingReadOk
    \/ PingReadZero
    \/ PingReadErr
    \/ PingReadTimedOut

(***************************************************************************)
(* f64 arithmetic, as far as Metrics::calculate_overall_score needs it:    *)
(* products, sums and one quotient of finite values >= 0, each rounded to  *)
(* the nearest value of 53 significant bits, ties to even (IEEE 754).      *)
(*                                                                         *)
(* A natural number of any size is the sequence of its digits in base      *)
(* 2^15, the lowest first and the highest not 0 (<<>> is 0).  An f64 is    *)
(* [m, e] for m * 2^e, with m of exactly 53 bits, or m = <<>> for 0.0.     *)
(***************************************************************************)
Base == 2^15

Limb(a, i) == IF i <= Len(a) THEN a[i] ELSE 0

BigTrim(a) ==
    LET top == { i \in 1..Len(a) : a[i] # 0 }
    IN  IF top = {} THEN <<>>
        ELSE SubSeq(a, 1, CHOOSE i \in top : \A j \in top : j <= i)

BigLess(a, b) ==
    IF Len(a) # Len(b) THEN Len(a) < Len(b)
    ELSE \E i \in 1..Len(a) :
             /\ a[i] < b[i]
             /\ \A j \in (i + 1)..Len(a) : a[j] = b[j]

RECURSIVE BigAddFrom(_, _, _, _)
BigAddFrom(a, b, i, carry) ==
    IF i > Len(a) /\ i > Len(b)
    THEN (IF carry = 0 THEN <<>> ELSE <<carry>>)
    ELSE Only({ <<t % Base>> \o BigAddFrom(a, b, i + 1, t \div Base) :
                t \in {Limb(a, i) + Limb(b, i) + carry} })

BigAdd(a, b) == BigAddFrom(a, b, 1, 0)

\* a - b for a >= b.
RECURSIVE BigSubFrom(_, _, _, _)
BigSubFrom(a, b, i, borrow) ==
    IF i > Len(a) THEN <<>>
    ELSE Only({ <<t % Base>> \o BigSubFrom(a, b, i + 1, IF t < Base THEN 1 ELSE 0) :
                t \in {Base + a[i] - Limb(b, i) - borrow} })

BigSub(a, b) == BigTrim(BigSubFrom(a, b, 1, 0))

\* a * d for a digit d.
RECURSIVE BigMulSmallFrom(_, _, _, _)
BigMulSmallFrom(a, d, i, carry) ==
    IF i > Len(a) THEN (IF carry = 0 THEN <<>> ELSE <<carry>>)
    ELSE Only({ <<t % Base>> \o BigMulSmallFrom(a, d, i + 1, t \div Base) :
                t \in {a[i] * d + carry} })

BigMulSmall(a, d) == BigTrim(BigMulSmallFrom(a, d, 1, 0))

\* a * Base^k.
BigShlLimbs(a, k) == IF a = <<>> THEN <<>> ELSE [i \in 1..k |-> 0] \o a

RECURSIVE BigMulFrom(_, _, _)
BigMulFrom(a, b, i) ==
    IF i > Len(b) THEN <<>>
    ELSE Only({ BigAdd(BigShlLimbs(BigMulSmall(a, b[i]), i - 1), rest) :
                rest \in {BigMulFrom(a, b, i + 1)} })

BigMul(a, b) == BigMulFrom(a, b, 1)

\* a * 2^k and a \div 2^k and a % 2^k.
BigShl(a, k) == BigShlLimbs(BigMulSmall(a, 2^(k % 15)), k \div 15)

BigShr(a, k) ==
    LET c == SubSeq(a, (k \div 15) + 1, Len(a))
        r == k % 15
    IN  BigTrim([i \in 1..Len(c) |->
                     (c[i] \div 2^r) + (Limb(c, i + 1) % 2^r) * 2^(15 - r)])

BigLowBits(a, k) ==
    BigTrim([i \in 1..((k \div 15) + 1) |->
                 IF i <= k \div 15 THEN Limb(a, i) ELSE Limb(a, i) % 2^(k % 15)])

BitLen(a) ==
    IF a = <<>> THEN 0
    ELSE 15 * (Len(a) - 1)
         + (CHOOSE n \in 1..15 : 2^(n - 1) <= a[Len(a)] /\ a[Len(a)] < 2^n)

\* The largest digit q in lo..hi with q * b <= r.
RECURSIVE QuotientDigit(_, _, _, _)
QuotientDigit(r, b, lo, hi) ==
    IF lo = hi THEN lo
    ELSE Only({ IF BigLess(r, BigMulSmall(b, mid))
                THEN QuotientDigit(r, b, lo, mid - 1)
                ELSE QuotientDigit(r, b, mid, hi) :
                mid \in {(lo + hi + 1) \div 2} })

\* Long division: the quotient and the remainder of the digits of a from
\* the i-th up, by b > 0.
BigDivStep(prev, d, b) ==
    Only({ Only({ [q |-> <<digit>> \o prev.q,
                   r |-> BigSub(r1, BigMulSmall(b, digit))] :
                  digit \in {QuotientDigit(r1, b, 0, Base - 1)} }) :
           r1 \in {BigTrim(<<d>> \o prev.r)} })

RECURSIVE BigDivFrom(_, _, _)
BigDivFrom(a, b, i) ==
    IF i > Len(a) THEN [q |-> <<>>, r |-> <<>>]
    ELSE Only({ BigDivStep(prev, a[i], b) : prev \in {BigDivFrom(a, b, i + 1)} })

BigDivMod(a, b) ==
    Only({ [q |-> BigTrim(d.q), r |-> d.r] : d \in {BigDivFrom(a, b, 1)} })

\* n * 2^e, and something more that is less than 2^e when sticky, rounded
\* to the nearest f64, ties to even.
RoundF64(n, e, sticky) ==
    IF n = <<>> THEN [m |-> <<>>, e |-> 0]
    ELSE IF BitLen(n) <= 53
    THEN [m |-> BigShl(n, 53 - BitLen(n)), e |-> e - (53 - BitLen(n))]
    ELSE LET s == BitLen(n) - 53
             q == BigShr(n, s)
             rem == BigLowBits(n, s)
             half == BigShl(<<1>>, s - 1)
             up == \/ BigLess(half, rem)
                   \/ rem = half /\ (sticky \/ q[1] % 2 = 1)
             m1 == IF up THEN BigAdd(q, <<1>>) ELSE q
         IN  IF BitLen(m1) = 54 THEN [m |-> BigShr(m1, 1), e |-> e + s + 1]
             ELSE [m |-> m1, e |-> e + s]

\* score * weight, a + b and weighted_sum / total_weight of f64.
F64Mul(a, b) ==
    Only({ RoundF64(n, a.e + b.e, FALSE) : n \in {BigMul(a.m, b.m)} })

F64Add(a, b) ==
    IF a.m = <<>> THEN b
    ELSE IF b.m = <<>> THEN a
    ELSE Only({ RoundF64(n, IF a.e < b.e THEN a.e ELSE b.e, FALSE) :
                n \in {BigAdd(BigShl(a.m, IF a.e > b.e THEN a.e - b.e ELSE 0),
                              BigShl(b.m, IF b.e > a.e THEN b.e - a.e ELSE 0))} })

F64Div(a, b) ==
    Only({ RoundF64(d.q, a.e - 56 - b.e, d.r # <<>>) :
           d \in {BigDivMod(BigShl(a.m, 56), b.m)} })

F64LessEq(a, b) ==
    \/ a.m = <<>>
    \/ /\ b.m # <<>>
       /\ \/ a.e < b.e
          \/ a.e = b.e /\ ~BigLess(b.m, a.m)

\* The f64 of a whole number below 2^15.
F64FromInt(k) == RoundF64(BigTrim(<<k>>), 0, FALSE)

(***************************************************************************)
(* The metrics of a session (src/src/metrics.rs): the collector's setters  *)
(* and Metrics::calculate_overall_score.                                   *)
(***************************************************************************)
\* The literals 0.25, 0.20 and 0.15 as the compiler reads them: the nearest
\* f64, which is 1/4 and a little more than 1/5 and a little less than 3/20.
Weight25 == [m |-> <<0, 0, 0, 128>>, e |-> 0 - 54]

Weight20 == [m |-> <<6554, 13107, 26214, 204>>, e |-> 0 - 55]

Weight15 == [m |-> <<13107, 26214, 19660, 153>>, e |-> 0 - 55]

\* The scores a probe may report.
ScoreValues == {0, 3, 100}

\* Metrics::new (lines 166-184).
MetricsInit ==
    /\ tcp_stability = None
    /\ bandwidth = None
    /\ connection_perf = None
    /\ dns_stability = None
    /\ network_jitter = None
    /\ overall_score = None
    /\ ms_pc = "collecting"

\* MetricsCollector's setters (lines 470-488); of the metrics of a probe
\* only its score is kept.
SetTcpStabilityMetrics ==
    /\ ms_pc = "collecting"
    /\ \E score \in ScoreValues : tcp_stability' = Some(F64FromInt(score))
    /\ UNCHANGED <<bandwidth, connection_perf, dns_stability, network_jitter,
                   overall_score, ms_pc, nonMsVars>>

SetBandwidthMetrics ==
    /\ ms_pc = "collecting"
    /\ \E score \in ScoreValues : bandwidth' = Some(F64FromInt(score))
    /\ UNCHANGED <<tcp_stability, connection_perf, dns_stability,
                   network_jitter, overall_score, ms_pc, nonMsVars>>

SetConnectionPerfMetrics ==
    /\ ms_pc = "collecting"
    /\ \E score \in ScoreValues : connection_perf' = Some(F64FromInt(score))
    /\ UNCHANGED <<tcp_stability, bandwidth, dns_stability, network_jitter,
                   overall_score, ms_pc, nonMsVars>>

SetDnsStabilityMetrics ==
    /\ ms_pc = "collecting"
    /\ \E score \in ScoreValues : dns_stability' = Some(F64FromInt(score))
    /\ UNCHANGED <<tcp_stability, bandwidth, connection_perf, network_jitter,
                   overall_score, ms_pc, nonMsVars>>

SetNetworkJitterMetrics ==
    /\ ms_pc = "collecting"
    /\ \E score \in ScoreValues : network_jitter' = Some(F64FromInt(score))
    /\ UNCHANGED <<tcp_stability, bandwidth, connection_perf, dns_stability,
                   overall_score, ms_pc, nonMsVars>>

\* Lines 193-221: the scores and the weights pushed, in this order.
ScoresAndWeights ==
    (IF tcp_stability.is_some
     THEN << [score |-> tcp_stability.v, weight |-> Weight25] >> ELSE <<>>)
    \o (IF bandwidth.is_some
        THEN << [score |-> bandwidth.v, weight |-> Weight20] >> ELSE <<>>)
    \o (IF connection_perf.is_some
        THEN << [score |-> connection_perf.v, weight |-> Weight20] >> ELSE <<>>)
    \o (IF dns_stability.is_some
        THEN << [score |-> dns_stability.v, weight |-> Weight15] >> ELSE <<>>)
    \o (IF network_jitter.is_some
        THEN << [score |-> network_jitter.v, weight |-> Weight20] >> ELSE <<>>)

\* iter().sum() of f64: from 0.0, from the left.
RECURSIVE F64Sum(_)
F64Sum(xs) ==
    IF xs = <<>> THEN [m |-> <<>>, e |-> 0]
    ELSE Only({ F64Add(acc, xs[Len(xs)]) :
                acc \in {F64Sum(SubSeq(xs, 1, Len(xs) - 1))} })

\* The overall score with 1.0 for the denominator.
calculate_overall_score_of_all ==
    IF ScoresAndWeights # <<>>
    THEN Some(F64Sum([i \in 1..Len(ScoresAndWeights) |->
                          F64Mul(ScoresAndWeights[i].score,
                                 ScoresAndWeights[i].weight)]))
    ELSE overall_score

\* Metrics::calculate_overall_score (lines 192-231): the new overall_score.
calculate_overall_score ==
    IF ScoresAndWeights # <<>>
    THEN LET total_weight ==
                 F64Sum([i \in 1..Len(ScoresAndWeights) |->
                             ScoresAndWeights[i].weight])
             weighted_sum ==
                 F64Sum([i \in 1..Len(ScoresAndWeights) |->
                             F64Mul(ScoresAndWeights[i].score,
                                    ScoresAndWeights[i].weight)])
         IN  Some(F64Div(weighted_sum, total_weight))
    ELSE overall_score

\* MetricsCollector::finalize and Metrics::finalize (lines 186-189, 490-493).
Finalize ==
    /\ ms_pc = "collecting"
    /\ overall_score' = calculate_overall_score
    /\ ms_pc' = "done"
    /\ UNCHANGED <<tcp_stability, bandwidth, connection_perf, dns_stability,
                   network_jitter, nonMsVars>>

MsNext ==
    \/ SetTcpStabilityMetrics
    \/ SetBandwidthMetrics
    \/ SetConnectionPerfMetrics
    \/ SetDnsStabilityMetrics
    \/ SetNetworkJitterMetrics
    \/ Finalize

(***************************************************************************)
(* The command line program (src/src/main.rs): main, the three             *)
(* run_*_test_parallel functions and run_all_tests_parallel.  A probe      *)
(* instance is a task that opens and closes tunnels until its run()        *)
(* returns Ok or Err, or panics.                                           *)
(***************************************************************************)
MaxParallel == 3

RtCommands == {"tcp_stability", "bandwidth", "connection_perf", "all"}

\* Lines 89-132 and 264-272: the run_*_test_parallel calls of a command, in
\* order.
Phases(cmd) ==
    IF cmd = "all" THEN <<"tcp_stability", "bandwidth", "connection_perf">>
    ELSE <<cmd>>

\* Lines 75-87: the command line is parsed; --config names no file, a good
\* one or a bad one.
RtInit ==
    /\ rt_command \in RtCommands
    /\ rt_parallel \in 0..MaxParallel
    /\ rt_config \in {"none", "ok", "bad"}
    /\ rt_pc = "main"
    /\ rt_phase = 0
    /\ join_set = <<>>
    /\ rt_done = <<>>
    /\ rt_log = <<>>
    /\ exit_code = 0 - 1

RunningTask == [state |-> "running", tunnel |-> FALSE, result |-> ""]

\* Lines 81-85: Config::from_file(..)? fails and main returns the error.
MainConfigErr ==
    /\ rt_pc = "main"
    /\ rt_config = "bad"
    /\ exit_code' = 1
    /\ rt_pc' = "exited"
    /\ UNCHANGED <<rt_command, rt_parallel, rt_config, rt_phase, join_set,
                   rt_done, rt_log, nonRtVars>>

\* Lines 81-131: the configuration is there and the command is matched.
MainDispatch ==
    /\ rt_pc = "main"
    /\ rt_config # "bad"
    /\ rt_phase' = 1
    /\ rt_pc' = "phase"
    /\ UNCHANGED <<rt_command, rt_parallel, rt_config, join_set, rt_done,
                   rt_log, exit_code, nonRtVars>>

\* A variant of lines 148-151 that runs an instance in the caller for
\* parallel <= 1.
PhaseInlineAtMostOne ==
    /\ rt_pc = "phase"
    /\ rt_parallel <= 1
    /\ join_set' = <<[state |-> "running", tunnel |-> FALSE, result |-> ""]>>
    /\ rt_done' = <<>>
    /\ rt_pc' = "inline"
    /\ UNCHANGED <<rt_command, rt_parallel, rt_config, rt_phase, rt_log,
                   exit_code, nonRtVars>>

\* Lines 148-151: with parallel == 1 the one instance runs in the caller.
PhaseInline ==
    /\ rt_pc = "phase"
    /\ rt_parallel = 1
    /\ join_set' = <<RunningTask>>
    /\ rt_done' = <<>>
    /\ rt_pc' = "inline"
    /\ UNCHANGED <<rt_command, rt_parallel, rt_config, rt_phase, rt_log,
                   exit_code, nonRtVars>>

\* Lines 153-155: let mut join_set = JoinSet::new(); the for loop over
\* 0..parallel has no turn when parallel is 0.
PhaseJoinSet ==
    /\ rt_pc = "phase"
    /\ rt_parallel # 1
    /\ join_set' = <<>>
    /\ rt_done' = <<>>
    /\ rt_pc' = IF rt_parallel = 0 THEN "join_next" ELSE "spawn"
    /\ UNCHANGED <<rt_command, rt_parallel, rt_config, rt_phase, rt_log,
                   exit_code, nonRtVars>>

\* Lines 155-164: one turn of the for loop; after the last the join loop
\* begins.
Spawn ==
    /\ rt_pc = "spawn"
    /\ Len(join_set) < rt_parallel
    /\ join_set' = Append(join_set, RunningTask)
    /\ rt_pc' = IF Len(join_set) + 1 = rt_parallel THEN "join_next" ELSE "spawn"
    /\ UNCHANGED <<rt_command, rt_parallel, rt_config, rt_phase, rt_done,
                   rt_log, exit_code, nonRtVars>>

\* An instance goes on: it opens a tunnel or loses the one it has.
TaskProgress ==
    /\ rt_pc \in {"inline", "spawn", "join_next"}
    /\ \E i \in 1..Len(join_set) :
           /\ join_set[i].state = "running"
           /\ join_set' = [join_set EXCEPT ![i].tunnel = ~@]
    /\ UNCHANGED <<rt_command, rt_parallel, rt_config, rt_pc, rt_phase,
                   rt_done, rt_log, exit_code, nonRtVars>>

\* Line 162: test.run().await returns in a spawned task (the test and its
\* tunnel are dropped), or the task panics; the JoinSet queues the outcome.
TaskEnds ==
    /\ rt_pc \in {"spawn", "join_next"}
    /\ \E i \in 1..Len(join_set), outcome \in {"Ok", "Err", "Panic"} :
           /\ join_set[i].state = "running"
           /\ join_set' = [join_set EXCEPT ![i] =
                               [state |-> "finished", tunnel |-> FALSE,
                                result |-> outcome]]
           /\ rt_done' = Append(rt_done, i)
    /\ UNCHANGED <<rt_command, rt_parallel, rt_config, rt_pc, rt_phase,
                   rt_log, exit_code, nonRtVars>>

\* The tasks of a JoinSet that is dropped while they run are left running.
DropJoinSetDetached(instances) == instances

\* Drop of the JoinSet: every task still running is aborted, and an aborted
\* task drops its test, and with it its tunnel.
DropJoinSet(instances) ==
    [i \in 1..Len(instances) |->
         IF instances[i].state = "running"
         THEN [state |-> "aborted", tunnel |-> FALSE, result |-> ""]
         ELSE instances[i]]

\* The caller goes on to the next call whatever the outcome was.
PhaseReturnsUnchecked(outcome, from, instances) ==
    /\ join_set' = instances
    /\ rt_log' = Append(rt_log, [phase |-> Phases(rt_command)[rt_phase],
                                 result |-> outcome, from |-> from,
                                 instances |-> instances])
    /\ IF rt_phase < Len(Phases(rt_command))
       THEN /\ rt_phase' = rt_phase + 1
            /\ rt_pc' = "phase"
            /\ UNCHANGED exit_code
       ELSE /\ exit_code' = IF outcome = "Ok" THEN 0 ELSE 1
            /\ rt_pc' = "exited"
            /\ UNCHANGED rt_phase
    /\ UNCHANGED <<rt_command, rt_parallel, rt_config, nonRtVars>>

\* run_*_test_parallel returns `outcome`, the outcome of instance `from` (0
\* for none), and the caller goes on: `?` in run_all_tests_parallel (lines
\* 267-269) and in main (lines 100-130), then lines 134-135.
PhaseReturns(outcome, from, instances) ==
    /\ join_set' = instances
    /\ rt_log' = Append(rt_log, [phase |-> Phases(rt_command)[rt_phase],
                                 result |-> outcome, from |-> from,
                                 instances |-> instances])
    /\ IF outcome = "Ok" /\ rt_phase < Len(Phases(rt_command))
       THEN /\ rt_phase' = rt_phase + 1
            /\ rt_pc' = "phase"
            /\ UNCHANGED exit_code
       ELSE /\ exit_code' = IF outcome = "Ok" THEN 0 ELSE 1
            /\ rt_pc' = "exited"
            /\ UNCHANGED rt_phase
    /\ UNCHANGED <<rt_command, rt_parallel, rt_config, nonRtVars>>

\* Line 150: return test.run().await.
InlineReturns ==
    /\ rt_pc = "inline"
    /\ \E outcome \in {"Ok", "Err"} :
           PhaseReturns(outcome, 1,
                        <<[state |-> "finished", tunnel |-> FALSE,
                           result |-> outcome]>>)
    /\ UNCHANGED rt_done

\* Lines 166-168: join_next().await yields Ok(Ok(())), and the loop goes on.
JoinNextOk ==
    /\ rt_pc = "join_next"
    /\ rt_done # <<>>
    /\ join_set[Head(rt_done)].result = "Ok"
    /\ join_set' = [join_set EXCEPT ![Head(rt_done)].state = "joined"]
    /\ rt_done' = Tail(rt_done)
    /\ UNCHANGED <<rt_command, rt_parallel, rt_config, rt_pc, rt_phase,
                   rt_log, exit_code, nonRtVars>>

\* Lines 166-168: join_next().await yields Ok(Err(e)) and `test_result?`
\* returns Err(e); the JoinSet is dropped.
JoinNextErr ==
    /\ rt_pc = "join_next"
    /\ rt_done # <<>>
    /\ join_set[Head(rt_done)].result = "Err"
    /\ rt_done' = <<>>
    /\ PhaseReturns("Err", Head(rt_done),
                    DropJoinSet([join_set EXCEPT ![Head(rt_done)].state = "joined"]))

\* Lines 169-173: join_next().await yields Err(join_error), and a
\* Connection error is returned; the JoinSet is dropped.
JoinNextJoinError ==
    /\ rt_pc = "join_next"
    /\ rt_done # <<>>
    /\ join_set[Head(rt_done)].result = "Panic"
    /\ rt_done' = <<>>
    /\ PhaseReturns("JoinError", Head(rt_done),
                    DropJoinSet([join_set EXCEPT ![Head(rt_done)].state = "joined"]))

\* Lines 166 and 177: join_next().await yields None, and Ok(()) is
\* returned.
JoinNextNone ==
    /\ rt_pc = "join_next"
    /\ \A i \in 1..Len(join_set) : join_set[i].state = "joined"
    /\ UNCHANGED rt_done
    /\ PhaseReturns("Ok", 0, DropJoinSet(join_set))

RtNext ==
    \/ MainConfigErr
    \/ MainDispatch
    \/ PhaseInline
    \/ PhaseJoinSet
    \/ Spawn
    \/ TaskProgress
    \/ TaskEnds
    \/ InlineReturns
    \/ JoinNextOk
    \/ JoinNextErr
    \/ JoinNextJoinError
    \/ JoinNextNone

(***************************************************************************)
(* Strings of the servers: from_utf8, trim and strip_prefix.               *)
(***************************************************************************)
\* std::str::from_utf8(bytes).is_ok().
RECURSIVE IsUtf8(_)
IsUtf8(bytes) ==
    IF bytes = <<>> THEN TRUE
    ELSE LET b == bytes[1]
             n == IF b < 128 THEN 1
                  ELSE IF b \in 194..223 THEN 2
                  ELSE IF b \in 224..239 THEN 3
                  ELSE IF b \in 240..244 THEN 4
                  ELSE 0
         IN  /\ n # 0
             /\ n <= Len(bytes)
             /\ \A i \in 2..n : bytes[i] \in 128..191
             /\ b = 224 => bytes[2] >= 160
             /\ b = 237 => bytes[2] <= 159
             /\ b = 240 => bytes[2] >= 144
             /\ b = 244 => bytes[2] <= 143
             /\ IsUtf8(SubSeq(bytes, n + 1, Len(bytes)))

\* str::trim, for strings whose white space is ASCII: tab, line feed,
\* vertical tab, form feed, carriage return and space.
TrimStr(str) ==
    LET keep == { i \in 1..Len(str) : str[i] \notin {9, 10, 11, 12, 13, 32} }
    IN  IF keep = {} THEN <<>>
        ELSE SubSeq(str, CHOOSE i \in keep : \A j \in keep : i <= j,
                         CHOOSE i \in keep : \A j \in keep : j <= i)

\* str::strip_prefix.
StripPrefix(str, prefix) ==
    IF Len(str) >= Len(prefix) /\ SubSeq(str, 1, Len(prefix)) = prefix
    THEN Some(SubSeq(str, Len(prefix) + 1, Len(str)))
    ELSE None

(***************************************************************************)
(* The TCP-stability echo server                                           *)
(* (src/src/server/tcp_stability_server.rs): handle_client on one          *)
(* connection, whose client sends some lines and then closes or waits.     *)
(***************************************************************************)
MaxLines == 2

\* "PING-" and "PONG-".
PingPrefix == <<80, 73, 78, 71, 45>>

PongPrefix == <<80, 79, 78, 71, 45>>

\* The lines a client may send: "PING-1\n", "PING-22\n", " PING-3 \r\n",
\* "PING-\n", "HELLO\n", "\n", "PONG-1\n", a line of one byte that is not
\* UTF-8, and "é\n".
ClientLines ==
    { <<80, 73, 78, 71, 45, 49, 10>>,
      <<80, 73, 78, 71, 45, 50, 50, 10>>,
      <<32, 80, 73, 78, 71, 45, 51, 32, 13, 10>>,
      <<80, 73, 78, 71, 45, 10>>,
      <<72, 69, 76, 76, 79, 10>>,
      <<10>>,
      <<80, 79, 78, 71, 45, 49, 10>>,
      <<255, 10>>,
      <<195, 169, 10>> }

SeqsUpTo(set, n) == UNION { [1..k -> set] : k \in 0..n }

\* Lines 5-8: the connection is accepted and split.
EsInit ==
    /\ es_lines \in SeqsUpTo(ClientLines, MaxLines)
    /\ es_client_closes \in BOOLEAN
    /\ es_pc = "read_line"
    /\ es_read = 0
    /\ es_written = <<>>
    /\ es_open = TRUE
    /\ es_log = <<>>

\* line.trim().strip_prefix("PING-"), lines 18-19.
PingNumber(line) == StripPrefix(TrimStr(line), PingPrefix)

\* format!("PONG-{number}\n"), line 20.
Pong(line) == PongPrefix \o PingNumber(line).v \o <<10>>

\* The line read_line is about to return.
NextLine == es_lines[es_read + 1]

\* The loop is left (break), Ok(()) is returned and the stream is dropped.
EsBreak(line, what) ==
    /\ es_pc' = "done"
    /\ es_open' = FALSE
    /\ es_log' = Append(es_log, [line |-> line, what |-> what])
    /\ UNCHANGED <<es_lines, es_client_closes, es_written, nonEsVars>>

\* Lines 12-16: read_line returns Ok(0), the client has closed.
EsEof ==
    /\ es_pc = "read_line"
    /\ es_read = Len(es_lines)
    /\ es_client_closes
    /\ UNCHANGED es_read
    /\ EsBreak(<<>>, "eof")

\* Lines 17-27: a line PING-<number> is read and answered.
EsPing ==
    /\ es_pc = "read_line"
    /\ es_read < Len(es_lines)
    /\ IsUtf8(NextLine)
    /\ PingNumber(NextLine).is_some
    /\ es_read' = es_read + 1
    /\ es_written' = Append(es_written, Pong(NextLine))
    /\ es_log' = Append(es_log, [line |-> NextLine, what |-> "reply"])
    /\ UNCHANGED <<es_lines, es_client_closes, es_pc, es_open, nonEsVars>>

\* Lines 22-25: write_all fails.
EsPingWriteErr ==
    /\ es_pc = "read_line"
    /\ es_read < Len(es_lines)
    /\ IsUtf8(NextLine)
    /\ PingNumber(NextLine).is_some
    /\ es_read' = es_read + 1
    /\ EsBreak(NextLine, "write_err")

\* Lines 28-30: another line is read, and the loop goes on.
EsUnknown ==
    /\ es_pc = "read_line"
    /\ es_read < Len(es_lines)
    /\ IsUtf8(NextLine)
    /\ ~PingNumber(NextLine).is_some
    /\ es_read' = es_read + 1
    /\ es_log' = Append(es_log, [line |-> NextLine, what |-> "ignored"])
    /\ UNCHANGED <<es_lines, es_client_closes, es_pc, es_written, es_open,
                   nonEsVars>>

\* Lines 12 and 32-35: the bytes of the line are not UTF-8 and read_line
\* returns an InvalidData error.
EsInvalidData ==
    /\ es_pc = "read_line"
    /\ es_read < Len(es_lines)
    /\ ~IsUtf8(NextLine)
    /\ es_read' = es_read + 1
    /\ EsBreak(NextLine, "invalid_data")

\* Lines 32-35: the connection fails under read_line.
EsReadErr ==
    /\ es_pc = "read_line"
    /\ UNCHANGED es_read
    /\ EsBreak(<<>>, "read_err")

EsNext ==
    \/ EsEof
    \/ EsPing
    \/ EsPingWriteErr
    \/ EsUnknown
    \/ EsInvalidData
    \/ EsReadErr

(***************************************************************************)
(* The connection-perf server                                              *)
(* (src/src/server/connection_perf_server.rs): handle_client on one        *)
(* connection, whose client sends some bytes, closes, or does neither.     *)
(***************************************************************************)
\* let mut buffer = [0u8; 64].
BufferSize == 64

\* "PING", "PONG\n", "ERROR\n" and "OK\n".
PingWord == <<80, 73, 78, 71>>

PongReply == <<80, 79, 78, 71, 10>>

ErrorReply == <<69, 82, 82, 79, 82, 10>>

OkReply == <<79, 75, 10>>

\* What a client may send first: "PING", "PING\n", "PING\r\n", " PING ",
\* "PING\nPING\n", "ping", "HELLO", "OK\n", one byte that is not UTF-8,
\* and "PING" before 66 spaces.
ClientMessages ==
    { <<80, 73, 78, 71>>,
      <<80, 73, 78, 71, 10>>,
      <<80, 73, 78, 71, 13, 10>>,
      <<32, 80, 73, 78, 71, 32>>,
      <<80, 73, 78, 71, 10, 80, 73, 78, 71, 10>>,
      <<112, 105, 110, 103>>,
      <<72, 69, 76, 76, 79>>,
      <<79, 75, 10>>,
      <<255>>,
      PingWord \o [i \in 1..66 |-> 32] }

\* The connection is accepted; the client sends cs_sent, or closes, or
\* stays silent.
CsInit ==
    /\ cs_client \in {"sends", "closes", "silent"}
    /\ cs_sent \in IF cs_client = "sends" THEN ClientMessages ELSE {<<>>}
    /\ cs_pc = "read"
    /\ cs_message = <<>>
    /\ cs_written = <<>>
    /\ cs_open = TRUE
    /\ cs_return = ""

\* Lines 13-15: from_utf8(&buffer[..bytes_read]).unwrap_or("").trim().
Message(bytes) == TrimStr(IF IsUtf8(bytes) THEN bytes ELSE <<>>)

\* Lines 19-29: the response to a message.
Response(message) == IF message = PingWord THEN PongReply ELSE ErrorReply

\* Lines 11-39: read returns the first bytes_read bytes the client sent (all
\* of them, or fewer, and never more than the buffer holds), the response is
\* written, Ok(()) is returned and the stream is dropped.
CsRead ==
    /\ cs_pc = "read"
    /\ cs_client = "sends"
    /\ \E n \in 1..Len(cs_sent) :
           /\ n <= BufferSize
           /\ cs_message' = Message(SubSeq(cs_sent, 1, n))
    /\ cs_written' = Response(cs_message')
    /\ cs_return' = "Ok"
    /\ cs_open' = FALSE
    /\ cs_pc' = "done"
    /\ UNCHANGED <<cs_client, cs_sent, nonCsVars>>

\* Lines 11-39: read returns Ok(0), the client has closed; the message is
\* "" and the response is written all the same.
CsReadEof ==
    /\ cs_pc = "read"
    /\ cs_client = "closes"
    /\ cs_message' = Message(<<>>)
    /\ cs_written' = Response(cs_message')
    /\ cs_return' = "Ok"
    /\ cs_open' = FALSE
    /\ cs_pc' = "done"
    /\ UNCHANGED <<cs_client, cs_sent, nonCsVars>>

\* Lines 22 and 27: write_all(response).await? fails.
CsWriteErr ==
    /\ cs_pc = "read"
    /\ cs_client \in {"sends", "closes"}
    /\ \E n \in (IF cs_client = "sends" THEN 1 ELSE 0)..Len(cs_sent) :
           /\ n <= BufferSize
           /\ cs_message' = Message(SubSeq(cs_sent, 1, n))
    /\ cs_return' = "Err"
    /\ cs_open' = FALSE
    /\ cs_pc' = "done"
    /\ UNCHANGED <<cs_client, cs_sent, cs_written, nonCsVars>>

\* Lines 31-34: read fails.
CsReadErr ==
    /\ cs_pc = "read"
    /\ cs_return' = "Err"
    /\ cs_open' = FALSE
    /\ cs_pc' = "done"
    /\ UNCHANGED <<cs_client, cs_sent, cs_message, cs_written, nonCsVars>>

CsNext ==
    \/ CsRead
    \/ CsReadEof
    \/ CsWriteErr
    \/ CsReadErr

(***************************************************************************)
(* A component that is not running.                                        *)
(***************************************************************************)
TcpIdle ==
    /\ heartbeat_interval = 0
    /\ test_duration = 0
    /\ proxy = Chaos
    /\ now = 0
    /\ end_time = 0
    /\ result = ZeroResult
    /\ stream = FALSE
    /\ connection_broken = FALSE
    /\ last_connection_attempt = 0
    /\ connection_start = NoInstant
    /\ heartbeat_start = NoInstant
    /\ heartbeat_result = "none"
    /\ pc = "idle"
    /\ sent = <<>>
    /\ connects = 0
    /\ connect_result = "none"
    /\ connected_at = NoInstant
    /\ success_at = NoInstant

SocksIdle ==
    /\ username = None
    /\ password = None
    /\ command = "connect"
    /\ target_addr = <<>>
    /\ spc = "idle"
    /\ written = <<>>
    /\ method_response = <<>>
    /\ auth_response = <<>>
    /\ reply = <<>>
    /\ bnd = <<>>
    /\ bnd_read = 0
    /\ socks_result = Pending

UdpIdle ==
    /\ udp_data = <<>>
    /\ udp_target = <<>>
    /\ upc = "idle"
    /\ packet = <<>>
    /\ inbox = <<>>
    /\ send_result = Pending
    /\ recv_result = UdpErr("pending", "")

AddrIdle ==
    /\ addr_host = <<>>
    /\ addr_port = <<>>
    /\ addr_colon = FALSE
    /\ address = <<>>
    /\ apc = "idle"
    /\ parsed = [kind |-> "pending", host |-> <<>>, port |-> 0]

BwIdle ==
    /\ chunk_size = 0
    /\ bw_duration = 0
    /\ bw_now = 0
    /\ bw_end_time = 0
    /\ bw_pc = "idle"
    /\ bw_result = ZeroBandwidthResult
    /\ response_buffer = <<>>
    /\ bytes_read = 0
    /\ bw_return = Pending
    /\ bw_connects = 0
    /\ bw_stream = 0
    /\ bw_open = 0
    /\ bw_written = <<>>
    /\ bw_io = "none"

CpIdle ==
    /\ total_connections = 0
    /\ cp_proxy = AnyProxy
    /\ cp_pc = "idle"
    /\ sequential_results = <<>>
    /\ cp_i = 0
    /\ cp_started = 0
    /\ cp_in_flight = 0
    /\ level_index = 1
    /\ tasks = NoTasks
    /\ concurrent_results = <<>>
    /\ cp_result = NoPerfResult
    /\ best_concurrent = None
    /\ concurrent_score = 0

DnsIdle ==
    /\ domains = <<>>
    /\ query_interval = 0
    /\ dns_duration = 0
    /\ dns_now = 0
    /\ dns_end_time = 0
    /\ next_tick = 0
    /\ dns_pc = "idle"
    /\ domain_index = 0
    /\ total_queries = 0
    /\ successful_queries = 0
    /\ failed_queries = 0
    /\ timeout_queries = 0
    /\ domain_results = <<>>
    /\ all_query_times = <<>>
    /\ dns_domain = <<>>
    /\ query_start = 0
    /\ udp_associate_calls = 0
    /\ dns_log = <<>>
    /\ dns_result = NoDnsResult

StatIdle ==
    /\ samples = <<>>
    /\ st_pc = "idle"
    /\ st_jitter = NotComputed
    /\ st_median = NotComputed
    /\ st_p95 = NotComputed
    /\ st_p99 = NotComputed
    /\ st_summary = [average |-> NotComputed, min |-> NotComputed, max |-> NotComputed]

JitIdle ==
    /\ targets = <<>>
    /\ ping_interval = 0
    /\ jit_duration = 0
    /\ jit_now = 0
    /\ jit_end_time = 0
    /\ jit_next_tick = 0
    /\ jit_pc = "idle"
    /\ target_index = 0
    /\ total_pings = 0
    /\ successful_pings = 0
    /\ failed_pings = 0
    /\ timeout_pings = 0
    /\ all_rtt_samples = <<>>
    /\ target_results = <<>>
    /\ jit_target = <<>>
    /\ ping_start = 0
    /\ jit_stream = 0
    /\ jit_connects = 0
    /\ jit_open = {}
    /\ jit_log = <<>>
    /\ jit_result = NoJitterResult

MsIdle ==
    /\ tcp_stability = None
    /\ bandwidth = None
    /\ connection_perf = None
    /\ dns_stability = None
    /\ network_jitter = None
    /\ overall_score = None
    /\ ms_pc = "idle"

RtIdle ==
    /\ rt_command = ""
    /\ rt_parallel = 0
    /\ rt_config = ""
    /\ rt_pc = "idle"
    /\ rt_phase = 0
    /\ join_set = <<>>
    /\ rt_done = <<>>
    /\ rt_log = <<>>
    /\ exit_code = 0 - 1

EsIdle ==
    /\ es_lines = <<>>
    /\ es_client_closes = FALSE
    /\ es_pc = "idle"
    /\ es_read = 0
    /\ es_written = <<>>
    /\ es_open = FALSE
    /\ es_log = <<>>

CsIdle ==
    /\ cs_client = ""
    /\ cs_sent = <<>>
    /\ cs_pc = "idle"
    /\ cs_message = <<>>
    /\ cs_written = <<>>
    /\ cs_open = FALSE
    /\ cs_return = ""

(***************************************************************************)
(* The states of the TCP-stability probe's state machine.                  *)
(***************************************************************************)
Connected == stream /\ ~connection_broken

Broken == ~stream /\ connection_broken

HeartbeatFailed(r) == r \in {"Ok(Err)", "Err(Elapsed)"}

(***************************************************************************)
(* Specifications.                                                         *)
(***************************************************************************)
InitTcp == TcpInit /\ SocksIdle /\ UdpIdle /\ AddrIdle /\ BwIdle /\ CpIdle /\ DnsIdle /\ StatIdle
    /\ JitIdle
    /\ MsIdle
    /\ RtIdle
    /\ EsIdle
    /\ CsIdle

SpecTcp == InitTcp /\ [][TcpNext]_vars

InitSocks == SocksInit /\ TcpIdle /\ UdpIdle /\ AddrIdle /\ BwIdle /\ CpIdle /\ DnsIdle /\ StatIdle
    /\ JitIdle
    /\ MsIdle
    /\ RtIdle
    /\ EsIdle
    /\ CsIdle

SpecSocks == InitSocks /\ [][SocksNext]_vars

InitUdp == UdpInit /\ TcpIdle /\ SocksIdle /\ AddrIdle /\ BwIdle /\ CpIdle /\ DnsIdle /\ StatIdle
    /\ JitIdle
    /\ MsIdle
    /\ RtIdle
    /\ EsIdle
    /\ CsIdle

SpecUdp == InitUdp /\ [][UdpNext]_vars

InitAddr == AddrInit /\ TcpIdle /\ SocksIdle /\ UdpIdle /\ BwIdle /\ CpIdle /\ DnsIdle /\ StatIdle
    /\ JitIdle
    /\ MsIdle
    /\ RtIdle
    /\ EsIdle
    /\ CsIdle

SpecAddr == InitAddr /\ [][AddrNext]_vars

InitBw == BwInit /\ TcpIdle /\ SocksIdle /\ UdpIdle /\ AddrIdle /\ CpIdle /\ DnsIdle /\ StatIdle
    /\ JitIdle
    /\ MsIdle
    /\ RtIdle
    /\ EsIdle
    /\ CsIdle

SpecBw == InitBw /\ [][BwNext]_vars

InitPerf == CpInit /\ TcpIdle /\ SocksIdle /\ UdpIdle /\ AddrIdle /\ BwIdle /\ DnsIdle /\ StatIdle
    /\ JitIdle
    /\ MsIdle
    /\ RtIdle
    /\ EsIdle
    /\ CsIdle

SpecPerf == InitPerf /\ [][CpNext]_vars

InitDns ==
    DnsInit /\ TcpIdle /\ SocksIdle /\ UdpIdle /\ AddrIdle /\ BwIdle /\ CpIdle
    /\ StatIdle
    /\ JitIdle
    /\ MsIdle
    /\ RtIdle
    /\ EsIdle
    /\ CsIdle

SpecDns == InitDns /\ [][DnsNext]_vars

InitStat ==
    StatInit /\ TcpIdle /\ SocksIdle /\ UdpIdle /\ AddrIdle /\ BwIdle /\ CpIdle
    /\ DnsIdle
    /\ JitIdle
    /\ MsIdle
    /\ RtIdle
    /\ EsIdle
    /\ CsIdle

SpecStat == InitStat /\ [][StatNext]_vars

InitJit ==
    JitInit
    /\ TcpIdle
    /\ SocksIdle
    /\ UdpIdle
    /\ AddrIdle
    /\ BwIdle
    /\ CpIdle
    /\ DnsIdle
    /\ StatIdle
    /\ MsIdle
    /\ RtIdle
    /\ EsIdle
    /\ CsIdle

SpecJit == InitJit /\ [][JitNext]_vars

InitMetrics ==
    MetricsInit
    /\ TcpIdle
    /\ SocksIdle
    /\ UdpIdle
    /\ AddrIdle
    /\ BwIdle
    /\ CpIdle
    /\ DnsIdle
    /\ StatIdle
    /\ JitIdle
    /\ RtIdle
    /\ EsIdle
    /\ CsIdle

SpecMetrics == InitMetrics /\ [][MsNext]_vars

InitMain ==
    RtInit
    /\ TcpIdle
    /\ SocksIdle
    /\ UdpIdle
    /\ AddrIdle
    /\ BwIdle
    /\ CpIdle
    /\ DnsIdle
    /\ StatIdle
    /\ JitIdle
    /\ MsIdle
    /\ EsIdle
    /\ CsIdle

SpecMain == InitMain /\ [][RtNext]_vars

InitEcho ==
    EsInit
    /\ TcpIdle
    /\ SocksIdle
    /\ UdpIdle
    /\ AddrIdle
    /\ BwIdle
    /\ CpIdle
    /\ DnsIdle
    /\ StatIdle
    /\ JitIdle
    /\ MsIdle
    /\ RtIdle
    /\ CsIdle

SpecEcho == InitEcho /\ [][EsNext]_vars

InitCpServer ==
    CsInit
    /\ TcpIdle
    /\ SocksIdle
    /\ UdpIdle
    /\ AddrIdle
    /\ BwIdle
    /\ CpIdle
    /\ DnsIdle
    /\ StatIdle
    /\ JitIdle
    /\ MsIdle
    /\ RtIdle
    /\ EsIdle

SpecCpServer == InitCpServer /\ [][CsNext]_vars

(***************************************************************************)
(* Properties of the TCP-stability probe (SpecTcp).                        *)
(***************************************************************************)

\* C1: while Connected, a heartbeat that fails (write or read error, read of
\* 0 bytes) or passes its 5 s deadline moves the probe to Broken, adds
\* exactly 1 to failed_heartbeats and drops the tunnel; while Broken, a
\* successful re-CONNECT moves it back to Connected, adds exactly 1 to
\* reconnections and appends exactly one ConnectionDrop; a failed re-CONNECT
\* leaves it Broken with every counter unchanged.
C1_StateMachine ==
    [][ /\ (pc = "await_heartbeat" /\ pc' = "sleep"
            /\ HeartbeatFailed(heartbeat_result'))
           => /\ Connected
              /\ Broken'
              /\ result' = [result EXCEPT !.failed_heartbeats = @ + 1]
        /\ (pc = "reconnecting" /\ connect_result' = "Ok")
           => /\ Broken
              /\ Connected'
              /\ result'.reconnections = result.reconnections + 1
              /\ Len(result'.connection_drops) = Len(result.connection_drops) + 1
              /\ SubSeq(result'.connection_drops, 1, Len(result.connection_drops))
                 = result.connection_drops
              /\ result'.total_heartbeats = result.total_heartbeats
              /\ result'.successful_heartbeats = result.successful_heartbeats
              /\ result'.failed_heartbeats = result.failed_heartbeats
        /\ (pc = "reconnecting" /\ connect_result' = "Err")
           => /\ Broken
              /\ Broken'
              /\ result' = result
      ]_vars

\* A run in which a heartbeat timed out, a re-CONNECT failed and a later one
\* succeeded.
C1_Witness ==
    /\ Connected
    /\ connects >= 3
    /\ result.reconnections = 1
    /\ result.failed_heartbeats = 1
    /\ heartbeat_result = "Err(Elapsed)"

\* C2: the numbers n of the PING-<n> sent in one run start at 1 and increase
\* strictly over the whole run, drops and reconnects included.
C2_SequenceNumbers ==
    /\ sent # <<>> => sent[1] = 1
    /\ \A i \in 1..Len(sent) : \A j \in 1..Len(sent) : i < j => sent[i] < sent[j]

\* Heartbeats sent before and after two reconnects.
C2_Witness ==
    /\ result.reconnections >= 2
    /\ Len(sent) >= 3
    /\ pc = "await_heartbeat"

\* C3: at every loop-iteration boundary and in the returned result,
\* successful_heartbeats + failed_heartbeats = total_heartbeats, a timed-out
\* heartbeat being counted as failed.
C3_CountersAgree ==
    pc \in {"loop", "done"} =>
        result.successful_heartbeats + result.failed_heartbeats
            = result.total_heartbeats

\* A returned result with an answered heartbeat and a timed-out one.
C3_Witness ==
    /\ pc = "done"
    /\ result.successful_heartbeats >= 1
    /\ result.failed_heartbeats >= 1
    /\ heartbeat_result = "Err(Elapsed)"

\* C4: when the first CONNECT fails the probe returns a fatal error: no
\* heartbeat is sent, no reconnect is attempted, no ConnectionDrop and no
\* reconnection is counted.
C4_InitialFailureFatal ==
    (connects = 1 /\ connect_result = "Err") =>
        /\ pc = "fatal"
        /\ sent = <<>>
        /\ result = ZeroResult
        /\ ~stream /\ ~connection_broken

\* The first CONNECT has failed.
C4_Witness == pc = "fatal" /\ connects = 1 /\ connect_result = "Err"

\* C5: every ConnectionDrop recorded has a strictly positive duration, and
\* its interval [timestamp, timestamp + duration] has ended when the next
\* successful heartbeat is recorded, for every heartbeat_interval, 0 included.
C5_DropsPositive ==
    \A i \in 1..Len(result.connection_drops) :
        LET drop == result.connection_drops[i]
        IN /\ drop.duration > 0
           /\ (pc = "sleep" /\ heartbeat_result = "Ok(Ok)")
              => drop.timestamp + drop.duration <= success_at

\* C6: scenario S3.  In the 300 s run with a 30 s interval in which the proxy
\* drops the tunnel at t = 90 s and accepts CONNECT again 2 s later, the
\* result has total_heartbeats = 10, failed_heartbeats = 1, reconnections = 1
\* and a total_downtime of about 2 s (within a second of it).
C6_ScenarioS3 ==
    ( /\ pc = "done"
      /\ heartbeat_interval = S3.heartbeat_interval
      /\ test_duration = S3.test_duration
      /\ proxy = S3.proxy )
    => /\ result.total_heartbeats = 10
       /\ result.failed_heartbeats = 1
       /\ result.reconnections = 1
       /\ result.total_downtime \in 1..3

(***************************************************************************)
(* Properties of the SOCKS5 client (SpecSocks).                            *)
(***************************************************************************)
HasCredentials == username.is_some /\ password.is_some

\* A CONNECT or UDP ASSOCIATE request is on the wire: a message after the
\* greeting that starts with the SOCKS version byte.
RequestSent == \E i \in 2..Len(written) : written[i][1] = 5

\* C7: the greeting is exactly 05 01 M, M = 00 without credentials and 02
\* with; on the 2-byte reply the client fails with a Socks5 error when byte 0
\* is not 05, ends the handshake when byte 1 is 00, enters the
\* username/password sub-negotiation when byte 1 is 02, and fails with a
\* Socks5 error for FF and for every other method.
C7_MethodNegotiation ==
    [][ (spc = "read_method" /\ method_response' # <<>>)
        => LET r == method_response'
           IN /\ written = << <<5, 1, IF HasCredentials THEN 2 ELSE 0>> >>
              /\ written' = written
              /\ r[1] # 5
                 => spc' = "done" /\ socks_result'.kind = "Socks5"
              /\ (r[1] = 5 /\ r[2] = 0)
                 => spc' = "send_request" /\ socks_result' = Pending
              /\ (r[1] = 5 /\ r[2] = 2)
                 => spc' = "authenticate" /\ socks_result' = Pending
              /\ (r[1] = 5 /\ r[2] \notin {0, 2})
                 => spc' = "done" /\ socks_result'.kind = "Socks5"
      ]_vars

\* The proxy chose a method that is neither 00, 02 nor FF and the call failed.
C7_Witness ==
    /\ method_response = <<5, 1>>
    /\ spc = "done"
    /\ socks_result.kind = "Socks5"

\* C8: with credentials configured the greeting is 05 01 02; once the proxy
\* has selected 02 the next bytes are 01 len user len pass (01 01 'u' 01 'p'
\* for u / p), and the CONNECT or UDP ASSOCIATE request follows only after
\* the answer 01 00; after any other answer, or a greeting reply that is an
\* error, no request is ever written on the connection.
C8_AuthBeforeRequest ==
    /\ (HasCredentials /\ written # <<>>) => written[1] = <<5, 1, 2>>
    /\ (HasCredentials /\ method_response = <<5, 2>> /\ Len(written) >= 2)
       => /\ written[2] = <<1, Len(username.v)>> \o username.v
                          \o <<Len(password.v)>> \o password.v
          /\ (username.v = <<117>> /\ password.v = <<112>>)
             => written[2] = <<1, 1, 117, 1, 112>>
          /\ Len(written) >= 3 => auth_response = <<1, 0>>
    /\ (auth_response # <<>> /\ auth_response # <<1, 0>>) => ~RequestSent
    /\ (method_response # <<>>
        /\ (method_response[1] # 5 \/ method_response[2] \notin {0, 2}))
       => ~RequestSent
    /\ RequestSent
       => /\ Len(written) = IF auth_response = <<>> THEN 2 ELSE 3
          /\ written[Len(written)][2] = IF command = "connect" THEN 1 ELSE 3

\* Scenario S2 has run to the request: u / p were accepted with 01 00.
C8_Witness ==
    /\ username.v = <<117>> /\ password.v = <<112>>
    /\ HasCredentials
    /\ auth_response = <<1, 0>>
    /\ Len(written) = 3
    /\ RequestSent

\* The BND.ADDR / BND.PORT suffix of the reply's ATYP was read in full:
\* 6 bytes for IPv4, a length byte and length + 2 bytes for a domain, 18
\* bytes for IPv6.
SuffixFullyRead ==
    LET atyp == reply[4]
    IN \/ atyp = 1 /\ Len(bnd) >= 6 /\ bnd_read = 6
       \/ atyp = 3 /\ Len(bnd) >= 1 /\ Len(bnd) >= bnd[1] + 3
          /\ bnd_read = bnd[1] + 3
       \/ atyp = 4 /\ Len(bnd) >= 18 /\ bnd_read = 18

\* C9: Socks5Client::connect returns a tunnel if and only if the 4-byte
\* reply has version 05 and REP 00 and the BND suffix of its ATYP was read in
\* full; every REP in 01..08 and every unknown REP gives a Socks5 error and
\* no tunnel.
C9_ConnectReply ==
    (spc = "done" /\ command = "connect")
    => /\ socks_result = Ok
          <=> (reply # <<>> /\ reply[1] = 5 /\ reply[2] = 0 /\ SuffixFullyRead)
       /\ (reply # <<>> /\ reply[2] # 0)
          => socks_result.kind = "Socks5"

\* A tunnel returned after a reply whose bound address is a domain name.
C9_Witness ==
    /\ spc = "done" /\ command = "connect"
    /\ socks_result = Ok
    /\ reply = <<5, 0, 0, 3>>
    /\ bnd = <<2, 97, 98, 0, 80>>

\* The CONNECT requests for the targets of the model, byte by byte:
\* "example.com:80", "1.2.3.4:443", "::1:53", "[::1]:53", "256.1.1.1:8".
ExpectedRequest(target) ==
    CASE target = ExampleCom80 ->
            <<5, 1, 0, 3, 11, 101, 120, 97, 109, 112, 108, 101, 46, 99, 111, 109,
              0, 80>>
      [] target = <<49, 46, 50, 46, 51, 46, 52, 58, 52, 52, 51>> ->
            <<5, 1, 0, 1, 1, 2, 3, 4, 1, 187>>
      [] target = <<58, 58, 49, 58, 53, 51>> ->
            <<5, 1, 0, 4, 0, 0, 0, 0, 0, 0, 0, 0, 0, 0, 0, 0, 0, 0, 0, 1, 0, 53>>
      [] target = <<91, 58, 58, 49, 93, 58, 53, 51>> ->
            <<5, 1, 0, 3, 5, 91, 58, 58, 49, 93, 0, 53>>
      [] target = <<50, 53, 54, 46, 49, 46, 49, 46, 49, 58, 56>> ->
            <<5, 1, 0, 3, 9, 50, 53, 54, 46, 49, 46, 49, 46, 49, 0, 8>>
      [] OTHER -> <<>>

\* C10: scenario S1.  After a no-auth greeting answered 05 00 the client
\* writes 05 01 00 ATYP ADDR PORT (big-endian): ATYP 01 and 4 bytes for an
\* IPv4 literal, 04 and 16 bytes for an IPv6 literal, 03 and a length byte
\* for any other host; for example.com:80 it writes
\* 05 01 00 03 0b "example.com" 00 50 and returns the tunnel after the reply
\* 05 00 00 01 <bnd4> <port2>.
C10_ConnectRequest ==
    (command = "connect" /\ ~HasCredentials /\ method_response = <<5, 0>>)
    => /\ written[1] = <<5, 1, 0>>
       /\ Len(written) >= 2
          => /\ ExpectedRequest(target_addr) # <<>>
             /\ written = << <<5, 1, 0>>, ExpectedRequest(target_addr) >>
       /\ spc \in {"read_reply", "read_bnd"} => Len(written) = 2
       /\ socks_result.kind = "Config" => ExpectedRequest(target_addr) = <<>>
       /\ (target_addr = ExampleCom80 /\ spc = "done"
           /\ reply = <<5, 0, 0, 1>> /\ Len(bnd) >= 6)
          => socks_result = Ok

\* Scenario S1 has run to its end.
C10_Witness ==
    /\ command = "connect" /\ ~HasCredentials
    /\ target_addr = ExampleCom80
    /\ method_response = <<5, 0>>
    /\ reply = <<5, 0, 0, 1>>
    /\ bnd = <<10, 0, 0, 1, 4, 56>>
    /\ spc = "done"
    /\ socks_result = Ok

(***************************************************************************)
(* Properties of the SOCKS5 UDP relay (SpecUdp).                           *)
(***************************************************************************)
\* recv_from has returned what it made of the datagram in the socket.
DatagramParsed == upc = "done" /\ recv_result.kind \in {"Ok", "Connection"}

\* The header of a datagram is malformed: short, RSV or FRAG not zero, an
\* address type other than 01, 03, 04, or a domain that overruns it.
Malformed(dg) ==
    \/ Len(dg) < 10
    \/ dg[1] # 0 \/ dg[2] # 0
    \/ dg[3] # 0
    \/ dg[4] \notin {1, 3, 4}
    \/ dg[4] = 3 /\ Len(dg) < 5 + dg[5] + 2

\* RSV RSV FRAG ATYP, the address, the port.
ExpectedHeaderLen(dg) ==
    IF dg[4] = 1 THEN 10 ELSE IF dg[4] = 4 THEN 22 ELSE 5 + dg[5] + 2

\* A datagram taken apart: the payload is what follows the header; the
\* origin string ends in ":" and the decimal port, and its host reads back
\* as the address bytes (a domain made of ASCII letters is the host itself).
TakenApart(dg, r) ==
    LET len == ExpectedHeaderLen(dg)
        origin == parse_address(r.target_addr)
        addr == SubSeq(dg, 5, len - 2)
    IN /\ r.kind = "Ok"
       /\ r.payload = SubSeq(dg, len + 1, Len(dg))
       /\ origin.ok
       /\ origin.port = dg[len - 1] * 256 + dg[len]
       /\ dg[4] = 1 => ParseIpAddr(origin.host) = [kind |-> "V4", octets |-> addr]
       /\ dg[4] = 4 => ParseIpAddr(origin.host) = [kind |-> "V6", octets |-> addr]
       /\ (dg[4] = 3 /\ \A i \in 2..Len(addr) : addr[i] < 128)
              => origin.host = Tail(addr)

Rejected(r) == r.kind = "Connection" /\ r.payload = <<>> /\ r.target_addr = <<>>

\* C11 as stated: recv_from returns an error and no payload for a datagram
\* shorter than 10 bytes, with an RSV byte or FRAG not zero, with an address
\* type outside {01, 03, 04} or with a domain length that overruns the
\* datagram, and for every other datagram the bytes after the header and the
\* origin string.
C11_UdpParser ==
    DatagramParsed =>
        IF Malformed(inbox) THEN Rejected(recv_result)
        ELSE TakenApart(inbox, recv_result)

\* C11, amended: an address type 04 datagram shorter than its 22-byte header
\* is an error too; with that case added to the malformed ones, recv_from
\* returns an error and no payload for every malformed datagram, and for
\* every other datagram the bytes after the header and the origin string
\* (10.0.0.1:53 and the payload 07 for 00 00 00 01 0A 00 00 01 00 35 07).
C11_UdpParserAmended ==
    /\ DatagramParsed =>
           IF Malformed(inbox) \/ (inbox[4] = 4 /\ Len(inbox) < 22)
           THEN Rejected(recv_result)
           ELSE TakenApart(inbox, recv_result)
    /\ (DatagramParsed /\ inbox = <<0, 0, 0, 1, 10, 0, 0, 1, 0, 53, 7>>)
           => /\ recv_result.payload = <<7>>
              /\ recv_result.target_addr
                     = <<49, 48, 46, 48, 46, 48, 46, 49, 58, 53, 51>>

\* A datagram with a domain origin and a payload was taken apart.
C11_Witness ==
    /\ DatagramParsed
    /\ inbox[4] = 3
    /\ recv_result.kind = "Ok"
    /\ recv_result.payload # <<>>

\* "0:0:0:0:0:0:0:1:53" and "a:080": targets that Display writes another
\* way ("::1:53", "a:80").
OtherSpellings ==
    { <<48, 58, 48, 58, 48, 58, 48, 58, 48, 58, 48, 58, 48, 58, 49, 58, 53, 51>>,
      <<97, 58, 48, 56, 48>> }

\* The datagram built by send_to came back as it was and was parsed.
EchoParsed ==
    /\ DatagramParsed
    /\ send_result = Ok
    /\ inbox = packet

\* C12: encapsulating (payload, target) and parsing the datagram built gives
\* back the same payload and the same target string, for IPv4, IPv6 and
\* domain hosts, short domain names with empty or 1-byte payloads included
\* (stated for targets spelled the way Display spells them).
C12_RoundTrip ==
    (EchoParsed /\ udp_target \notin OtherSpellings) =>
        /\ recv_result.kind = "Ok"
        /\ recv_result.payload = udp_data
        /\ recv_result.target_addr = udp_target

(***************************************************************************)
(* Properties of parse_address (SpecAddr).                                 *)
(***************************************************************************)
AddrParsed == apc = "done"

HasColon(str) == \E i \in 1..Len(str) : str[i] = Colon

\* C13: parse_address splits on the rightmost colon: for every host (with or
\* without colons of its own) and every port in 0..65535,
\* parse_address(host ":" decimal(port)) is (host, port); an address without
\* a colon, or whose port is not a number or is above 65535, is a Config
\* error.
C13_ParseAddress ==
    AddrParsed =>
        /\ \A p \in AddrPorts :
               (addr_colon /\ addr_port = Decimal(p))
                   => parsed = [kind |-> "Ok", host |-> addr_host, port |-> p]
        /\ ~HasColon(address) => parsed.kind = "Config"
        /\ (addr_colon /\ addr_port \in NonNumericPorts \cup OutOfRangePorts)
               => parsed.kind = "Config"
        /\ address = ExampleCom80
               => parsed = [kind |-> "Ok", port |-> 80,
                            host |-> <<101, 120, 97, 109, 112, 108, 101, 46,
                                       99, 111, 109>>]

\* An address whose host has colons of its own was split.
C13_Witness ==
    /\ AddrParsed
    /\ addr_colon
    /\ HasColon(addr_host)
    /\ parsed.kind = "Ok"
    /\ parsed.port = 65535

(***************************************************************************)
(* Properties of the bandwidth probe (SpecBw).                             *)
(***************************************************************************)
\* A round of perform_data_transfer ends in a write or read error.
RoundFails == bw_pc \in {"upload", "download"} /\ bw_pc' = "reconnect"

\* C14: a round that fails with a write or read error adds exactly 1 to
\* connection_interruptions (and nothing else does) and is followed by a new
\* CONNECT; when that succeeds the setup request is written again, on the new
\* tunnel, and the loop goes on; when the CONNECT or the write fails the loop
\* ends and the probe returns the result as it stands, not an error.
C14_ReconnectOnError ==
    [][ /\ IF RoundFails
           THEN bw_result'.connection_interruptions
                    = bw_result.connection_interruptions + 1
           ELSE bw_result'.connection_interruptions
                    = bw_result.connection_interruptions
        /\ bw_pc = "reconnect" => bw_connects' = bw_connects + 1
        /\ (bw_pc = "reconnect" /\ bw_return' = Pending)
               => bw_open' = bw_open + 1 /\ bw_pc' = "assign"
        /\ bw_pc = "assign"
               => bw_stream' = bw_connects /\ bw_stream' # bw_stream
                  /\ bw_pc' = "resend"
        /\ (bw_pc = "resend" /\ bw_return' = Pending)
               => /\ bw_written' = Append(bw_written, <<bw_connects, "setup">>)
                  /\ bw_pc' = "sleep"
        /\ (bw_pc \in {"reconnect", "resend"} /\ bw_return' # Pending)
               => bw_return' = Ok /\ bw_result' = bw_result
      ]_vars

\* After a failed round the probe reconnected, wrote the setup request to the
\* second tunnel and began another round on it.
C14_Witness ==
    /\ bw_pc = "upload"
    /\ bw_result.connection_interruptions = 1
    /\ bw_stream = 2
    /\ bw_written[Len(bw_written)] = <<2, "setup">>

\* "HTTP/1.1 500 Error\r\n\r\n"
Http500 == <<72, 84, 84, 80, 47, 49, 46, 49, 32, 53, 48, 48, 32, 69, 114, 114, 111, 114, 13, 10, 13, 10>>

\* The response holds "HTTP/" and one of "200 OK", "201 Created",
\* "204 No Content".
Passes(response) ==
    /\ Contains(response, <<72, 84, 84, 80, 47>>)
    /\ \E status \in { <<50, 48, 48, 32, 79, 75>>,
                       <<50, 48, 49, 32, 67, 114, 101, 97, 116, 101, 100>>,
                       <<50, 48, 52, 32, 78, 111, 32, 67, 111, 110, 116, 101, 110, 116>> } :
           Contains(response, status)

\* C15 (scenario S4): a round whose upload went through pushed its upload
\* sample and counted its bytes; when its response does not pass the check
\* (HTTP/1.1 500 Error, say) the download sample is pushed and the bytes read
\* are counted all the same, data_integrity_errors grows by exactly 1 and
\* connection_interruptions stays as it is; a response that passes leaves
\* data_integrity_errors alone.
C15_IntegrityError ==
    [][ /\ (bw_pc = "upload" /\ bw_pc' = "download")
               => /\ Len(bw_result'.upload_samples)
                         = Len(bw_result.upload_samples) + 1
                  /\ bw_result'.total_bytes_sent
                         = bw_result.total_bytes_sent + chunk_size
        /\ (bw_pc = "downloaded" /\ bw_pc' # bw_pc)
               => /\ bw_result'.download_samples
                         = Append(bw_result.download_samples,
                                  bw_result'.download_samples[
                                      Len(bw_result'.download_samples)])
                  /\ bw_result'.download_samples[
                         Len(bw_result'.download_samples)].chunk_size = bytes_read
                  /\ bw_result'.total_bytes_received
                         = bw_result.total_bytes_received + bytes_read
                  /\ bw_result'.upload_samples = bw_result.upload_samples
                  /\ bw_result'.total_bytes_sent = bw_result.total_bytes_sent
                  /\ bw_result'.connection_interruptions
                         = bw_result.connection_interruptions
                  /\ bw_result'.data_integrity_errors
                         = bw_result.data_integrity_errors
                           + (IF Passes(response_buffer) THEN 0 ELSE 1)
                  /\ response_buffer = Http500
                         => bw_result'.data_integrity_errors
                                = bw_result.data_integrity_errors + 1
                  /\ bw_pc' = "sleep"
      ]_vars

\* A round answered by HTTP/1.1 500 Error has ended.
C15_Witness ==
    /\ bw_pc = "sleep"
    /\ response_buffer = Http500
    /\ bw_result.data_integrity_errors = 1
    /\ bw_result.connection_interruptions = 0
    /\ Len(bw_result.download_samples) = 1
    /\ bw_result.total_bytes_received = Len(Http500)

(***************************************************************************)
(* Properties of the connection-perf probe (SpecPerf).                     *)
(***************************************************************************)
InSequentialPhase == cp_pc \in {"sequential", "attempt", "sleep"}

SequentialOver == cp_pc \in {"level", "spawn", "join_all", "print_results", "done"}

HasPerfResult == cp_pc \in {"print_results", "done"}

\* The attempts of the sequential phase that ended in `error`.
Ended(error) == { k \in 1..Len(sequential_results) : sequential_results[k].error = error }

\* C16: the sequential phase makes exactly total_connections attempts, one
\* at a time: at most one is in flight, every attempt that was begun has
\* ended except the one in flight, and the phase ends with total_connections
\* attempts begun.  In the result successful_connections +
\* failed_connections = total_attempts = total_connections, the successful
\* ones being the attempts that connected and the failed ones the attempts
\* that were refused or timed out.
C16_Sequential ==
    /\ InSequentialPhase =>
           /\ cp_in_flight <= 1
           /\ cp_started = Len(sequential_results) + cp_in_flight
           /\ cp_started <= total_connections
    /\ SequentialOver =>
           /\ cp_started = total_connections
           /\ Len(sequential_results) = total_connections
    /\ HasPerfResult =>
           /\ cp_result.total_attempts = total_connections
           /\ cp_result.successful_connections + cp_result.failed_connections
                  = cp_result.total_attempts
           /\ cp_result.successful_connections = Cardinality(Ended("none"))
           /\ cp_result.failed_connections
                  = Cardinality(Ended("error")) + Cardinality(Ended("Connection timeout"))

\* A finished run of several attempts in which one connected and one timed
\* out.
C16_Witness ==
    /\ cp_pc = "done"
    /\ total_connections >= 2
    /\ Ended("none") # {}
    /\ Ended("Connection timeout") # {}
    /\ cp_result.failed_connections >= 1

\* The levels the concurrent phase has to test, and those among the first
\* n of the list.
TestedLevels == { L \in {2, 5, 10, 20, 50} : L <= total_connections }

TestedBefore(n) ==
    { k \in 1..(n - 1) : concurrent_levels[k] \in TestedLevels }

InConcurrentPhase == cp_pc \in {"level", "spawn", "join_all"}

RowLevels(rows) == { rows[k].concurrent_level : k \in 1..Len(rows) }

\* C17: the rows are those of the levels of {2, 5, 10, 20, 50} that are at
\* most total_connections, one each, in increasing order, and the result
\* holds exactly them; a row is recorded only when exactly L attempts were
\* launched and none of them is still running, no attempt is outstanding
\* when the next level starts, and in every row successful_connections +
\* failed_connections = L, with the successes and failures of the L tasks.
C17_Concurrent ==
    /\ \A k \in 1..Len(concurrent_results) :
           /\ concurrent_results[k].concurrent_level \in TestedLevels
           /\ concurrent_results[k].successful_connections
                  + concurrent_results[k].failed_connections
                  = concurrent_results[k].concurrent_level
           /\ k > 1 => concurrent_results[k - 1].concurrent_level
                           < concurrent_results[k].concurrent_level
    /\ InConcurrentPhase =>
           /\ Len(concurrent_results) = Cardinality(TestedBefore(level_index))
           /\ tasks.spawned = tasks.running + tasks.successful + tasks.failed
           /\ cp_in_flight = tasks.running
    /\ cp_pc = "level" => cp_in_flight = 0
    /\ cp_pc \in {"level", "print_results", "done"} /\ concurrent_results # <<>> =>
           LET row == concurrent_results[Len(concurrent_results)]
           IN  /\ tasks.spawned = row.concurrent_level
               /\ tasks.running = 0
               /\ row.successful_connections = tasks.successful
               /\ row.failed_connections = tasks.failed
    /\ HasPerfResult =>
           /\ cp_result.concurrent_test_results = concurrent_results
           /\ RowLevels(concurrent_results) = TestedLevels
           /\ Len(concurrent_results) = Cardinality(TestedLevels)

\* A finished run that tested levels 2 and 5 and skipped the others, some
\* of the five attempts of level 5 succeeding and some failing.
C17_Witness ==
    /\ cp_pc = "done"
    /\ Len(cp_result.concurrent_test_results) = 2
    /\ cp_result.concurrent_test_results[2].concurrent_level = 5
    /\ cp_result.concurrent_test_results[2].successful_connections = 3
    /\ cp_result.concurrent_test_results[2].failed_connections = 2

\* The levels of the result's rows all of whose attempts succeeded.
FullySucceeded ==
    { L \in RowLevels(cp_result.concurrent_test_results) :
          \E k \in 1..Len(cp_result.concurrent_test_results) :
              /\ cp_result.concurrent_test_results[k].concurrent_level = L
              /\ cp_result.concurrent_test_results[k].successful_connections = L }

\* The rows say 20 of 20 and 15 of 50.
ScenarioS6 ==
    \E i, k \in 1..Len(cp_result.concurrent_test_results) :
        /\ cp_result.concurrent_test_results[i].concurrent_level = 20
        /\ cp_result.concurrent_test_results[i].successful_connections = 20
        /\ cp_result.concurrent_test_results[k].concurrent_level = 50
        /\ cp_result.concurrent_test_results[k].successful_connections = 15

\* C18: once the results are printed, the level reported and scored is the
\* greatest tested level all of whose attempts succeeded; when no level
\* fully succeeded none is reported and the score's concurrency term is 0;
\* in scenario S6 it is 20 whatever happened at levels 2, 5 and 10.
C18_MaxConcurrent ==
    cp_pc = "done" =>
        /\ FullySucceeded = {} =>
               /\ ~best_concurrent.is_some
               /\ concurrent_score = 0
        /\ FullySucceeded # {} =>
               /\ best_concurrent.is_some
               /\ best_concurrent.v \in FullySucceeded
               /\ \A L \in FullySucceeded : L <= best_concurrent.v
               /\ concurrent_score = 2 * best_concurrent.v
        /\ ScenarioS6 => best_concurrent = Some(20)

\* Scenario S6 with failures at the lowest level: 20 is reported.
C18_Witness ==
    /\ cp_pc = "done"
    /\ ScenarioS6
    /\ cp_result.concurrent_test_results[1].successful_connections = 1
    /\ best_concurrent = Some(20)
    /\ concurrent_score = 40

(***************************************************************************)
(* Properties of the DNS probe (SpecDns).                                  *)
(***************************************************************************)
\* The domain tick k (counted from 0) has to query.
RoundRobin(k) == domains[(k % Len(domains)) + 1]

\* Every finished query, and the one in progress, was for the domain of its
\* tick.
TicksInTurn ==
    /\ \A k \in 1..Len(dns_log) : dns_log[k].domain = RoundRobin(k - 1)
    /\ dns_pc \in {"udp_associate", "create_packet", "send_to", "recv_from"} =>
           /\ total_queries = Len(dns_log) + 1
           /\ dns_domain = RoundRobin(total_queries - 1)
    /\ dns_pc \in {"loop", "done"} => total_queries = Len(dns_log)

\* The per-domain total_queries of any two domains differ by at most 1.
EvenlySpread ==
    \A d, e \in DOMAIN domain_results :
        domain_results[d].total_queries - domain_results[e].total_queries <= 1

RECURSIVE SumTotals(_)
SumTotals(names) ==
    IF names = {} THEN 0
    ELSE LET d == CHOOSE d \in names : TRUE
         IN  domain_results[d].total_queries + SumTotals(names \ {d})

PerDomainSum == SumTotals(DOMAIN domain_results) = total_queries

ScenarioS5 ==
    domains = <<<<97>>, <<98>>, <<99>>>> /\ total_queries = 3 =>
        \A d \in DOMAIN domain_results : domain_results[d].total_queries = 1

PairwiseDistinct == Cardinality(Keys(domains)) = Len(domains)

InDnsRun == dns_pc # "idle"

\* C19 as stated: tick k queries domains[k mod len(domains)] whatever the
\* earlier outcomes; after any number of ticks the per-domain total_queries
\* of two distinct domains differ by at most 1 and their sum is the global
\* total_queries; three ticks over [a, b, c] give one query each.
C19_RoundRobin ==
    InDnsRun => TicksInTurn /\ EvenlySpread /\ PerDomainSum /\ ScenarioS5

\* C19 amended: as C19, the per-domain totals differing by at most 1 when
\* the entries of domains are pairwise distinct (a domain listed twice is
\* queried twice per round and has one entry in the per-domain map).
C19_RoundRobinAmended ==
    InDnsRun =>
        /\ TicksInTurn
        /\ PairwiseDistinct => EvenlySpread
        /\ PerDomainSum
        /\ ScenarioS5

\* Four ticks over [a, b, c], the first query failing and the second
\* succeeding: a was queried twice, b and c once.
C19_Witness ==
    /\ dns_pc = "done"
    /\ domains = <<<<97>>, <<98>>, <<99>>>>
    /\ total_queries = 4
    /\ dns_log[1].kind = "Connection"
    /\ dns_log[2].kind = "Ok"
    /\ dns_log[4].domain = <<97>>
    /\ dns_result.domain_results[<<97>>].total_queries = 2
    /\ dns_result.domain_results[<<98>>].total_queries = 1

\* The finished queries that returned a result of one of `kinds`.
Returned(kinds) == { k \in 1..Len(dns_log) : dns_log[k].kind \in kinds }

\* The kinds of NetworkTestError other than Timeout.
ErrorKinds == {"Connection", "Socks5", "Io", "Config"}

\* C20: the result's successful_queries + failed_queries + timeout_queries
\* is its total_queries; between queries and in the result, the queries
\* that returned a Timeout error (the 5 s having elapsed while the relay
\* was set up or while the answer was awaited) are counted in
\* timeout_queries and nowhere else, those that returned any other error in
\* failed_queries and nowhere else, and the others in successful_queries.
C20_DnsCounters ==
    /\ dns_pc = "done" =>
           /\ dns_result.successful_queries + dns_result.failed_queries
                  + dns_result.timeout_queries = dns_result.total_queries
           /\ dns_result.total_queries = Len(dns_log)
           /\ dns_result.timeout_queries = Cardinality(Returned({"Timeout"}))
           /\ dns_result.failed_queries = Cardinality(Returned(ErrorKinds))
           /\ dns_result.successful_queries = Cardinality(Returned({"Ok"}))
    /\ InDnsRun =>
           /\ timeout_queries = Cardinality(Returned({"Timeout"}))
           /\ failed_queries = Cardinality(Returned(ErrorKinds))
           /\ successful_queries = Cardinality(Returned({"Ok"}))
           /\ Returned({"Ok", "Timeout"} \cup ErrorKinds) = 1..Len(dns_log)

\* A finished run of three queries: one answered, one failed, and one that
\* timed out while the relay was being set up.
C20_Witness ==
    /\ dns_pc = "done"
    /\ dns_result.total_queries = 3
    /\ dns_result.successful_queries = 1
    /\ dns_result.failed_queries = 1
    /\ dns_result.timeout_queries = 1
    /\ \E k \in 1..Len(dns_log) :
           dns_log[k].kind = "Timeout" /\ dns_log[k].at = "udp_associate"

\* C21: with an empty domain list the probe never starts a query and
\* never calls udp_associate, and it returns at the time it was started,
\* whatever test_duration is; its result has total, successful, failed and
\* timeout counters 0, an empty per-domain map, and average, min and max
\* query time 0.
C21_EmptyDomains ==
    InDnsRun /\ domains = <<>> =>
        /\ dns_pc \in {"loop", "done"}
        /\ dns_now = 0
        /\ udp_associate_calls = 0
        /\ dns_log = <<>>
        /\ dns_pc = "done" =>
               /\ dns_result.total_queries = 0
               /\ dns_result.successful_queries = 0
               /\ dns_result.failed_queries = 0
               /\ dns_result.timeout_queries = 0
               /\ DOMAIN dns_result.domain_results = {}
               /\ dns_result.average_query_time = 0
               /\ dns_result.min_query_time = 0
               /\ dns_result.max_query_time = 0

\* A run of 3 s with no domains has returned, the first tick having fired.
C21_Witness ==
    /\ dns_pc = "done"
    /\ domains = <<>>
    /\ dns_duration = 3000
    /\ next_tick = query_interval
    /\ dns_now = 0

\* C30: a run opens exactly one UDP association, at its start, and every
\* query goes through it: udp_associate is called at most once in a run,
\* however many ticks there are, and not again once a query was made.
C30_OneAssociation ==
    InDnsRun =>
        /\ udp_associate_calls <= 1
        /\ dns_pc = "udp_associate" => total_queries <= 1

(***************************************************************************)
(* Properties of the statistics (SpecStat).                                *)
(***************************************************************************)
\* |rtt[i] - rtt[i-1]| summed over the samples 2..k, in insertion order.
RECURSIVE DifferencesUpTo(_)
DifferencesUpTo(k) ==
    IF k < 2 THEN 0
    ELSE DifferencesUpTo(k - 1)
         + (IF samples[k] >= samples[k - 1] THEN samples[k] - samples[k - 1]
            ELSE samples[k - 1] - samples[k])

JitterComputed == st_pc \in {"percentiles", "done"}

\* C23: the jitter is 0 for no sample and for one; for n >= 2 samples it is
\* the sum of the n - 1 absolute differences of consecutive samples, in
\* insertion order, divided by n - 1 (a Duration: to the whole nanosecond
\* below); it is 0 when all samples are equal.
C23_Jitter ==
    JitterComputed =>
        /\ Len(samples) <= 1 => st_jitter = 0
        /\ Len(samples) >= 2 =>
               /\ st_jitter * (Len(samples) - 1) <= DifferencesUpTo(Len(samples))
               /\ DifferencesUpTo(Len(samples)) < (st_jitter + 1) * (Len(samples) - 1)
        /\ (\A i, k \in 1..Len(samples) : samples[i] = samples[k]) => st_jitter = 0

\* Samples 0, 9, 4 ns: the differences are 9 and 5, the jitter 7.
C23_Witness ==
    /\ st_pc = "done"
    /\ samples = <<0, 9, 4>>
    /\ st_jitter = 7

\* v is the sample at index k (from 0) of the sorted samples: fewer than
\* k + 1 samples are below it and at least k + 1 are not above it.
AtRank(v, k) ==
    /\ \E i \in 1..Len(samples) : samples[i] = v
    /\ Cardinality({ i \in 1..Len(samples) : samples[i] < v }) <= k
    /\ k < Cardinality({ i \in 1..Len(samples) : samples[i] <= v })

\* r is percentile / 100 * (n - 1) rounded to the nearest whole number.
NearestRank(r, percentile) ==
    /\ 200 * r <= 2 * percentile * (Len(samples) - 1) + 100
    /\ 2 * percentile * (Len(samples) - 1) + 100 < 200 * r + 200

RECURSIVE SamplesUpTo(_)
SamplesUpTo(k) == IF k < 1 THEN 0 ELSE SamplesUpTo(k - 1) + samples[k]

\* C24: for a non-empty sample set, min <= median <= p95 <= p99 <= max,
\* min and max being the least and the greatest sample, the median the
\* middle sample of the sorted samples or the mean of the two middle ones,
\* and pN the sorted sample at index round(N / 100 * (n - 1)); for an empty
\* sample set average, min, max, median and both percentiles are 0.
C24_Statistics ==
    st_pc = "done" =>
        /\ samples = <<>> =>
               /\ st_summary = [average |-> 0, min |-> 0, max |-> 0]
               /\ st_median = 0
               /\ st_p95 = 0
               /\ st_p99 = 0
        /\ samples # <<>> =>
               /\ st_summary.min <= st_median
               /\ st_median <= st_p95
               /\ st_p95 <= st_p99
               /\ st_p99 <= st_summary.max
               /\ AtRank(st_summary.min, 0)
               /\ AtRank(st_summary.max, Len(samples) - 1)
               /\ st_summary.average * Len(samples) <= SamplesUpTo(Len(samples))
               /\ SamplesUpTo(Len(samples)) < (st_summary.average + 1) * Len(samples)
               /\ Len(samples) % 2 = 1 => AtRank(st_median, (Len(samples) - 1) \div 2)
               /\ Len(samples) % 2 = 0 =>
                      \E i, k \in 1..Len(samples) :
                          /\ AtRank(samples[i], (Len(samples) \div 2) - 1)
                          /\ AtRank(samples[k], Len(samples) \div 2)
                          /\ 2 * st_median <= samples[i] + samples[k]
                          /\ samples[i] + samples[k] < 2 * st_median + 2
               /\ \E r \in 0..(Len(samples) - 1) :
                      NearestRank(r, 95) /\ AtRank(st_p95, r)
               /\ \E r \in 0..(Len(samples) - 1) :
                      NearestRank(r, 99) /\ AtRank(st_p99, r)

\* Sixty samples, the numbers 0..59 in some order: median 29, p95 56,
\* p99 58, max 59.
C24_Witness ==
    /\ st_pc = "done"
    /\ Len(samples) = 60
    /\ st_summary.min = 0
    /\ st_median = 29
    /\ st_p95 = 56
    /\ st_p99 = 58
    /\ st_summary.max = 59

(***************************************************************************)
(* Properties of the jitter probe (SpecJit).                               *)
(***************************************************************************)
\* Between two ticks: at the head of the loop or after it.
BetweenTicks == jit_pc \in {"loop", "done"}

\* The tunnels the pings returned so far were given, in order (0 for a ping
\* whose CONNECT gave none).
TunnelsUsed == [k \in 1..Len(jit_log) |-> jit_log[k].tunnel]

\* C22: every tick calls client.connect once, for a tunnel no earlier tick
\* had; at most one tunnel is open at a time and none is open or held
\* between two ticks; and the result run_jitter_test returns has
\* successful_pings + failed_pings + timeout_pings = total_pings and as many
\* rtt_samples as successful_pings.
C22_JitterCounters ==
    /\ Cardinality(jit_open) <= 1
    /\ jit_open = IF jit_stream = 0 THEN {} ELSE {jit_stream}
    /\ BetweenTicks => jit_stream = 0 /\ jit_connects = total_pings
    /\ jit_pc = "connect" => jit_stream = 0 /\ jit_connects = total_pings - 1
    /\ jit_pc \in {"write_all", "read"} =>
           /\ jit_stream = total_pings
           /\ jit_connects = total_pings
    /\ \A k \in 1..Len(jit_log) : TunnelsUsed[k] \in {0, k}
    /\ jit_pc = "done" =>
           /\ jit_result.successful_pings + jit_result.failed_pings
                  + jit_result.timeout_pings = jit_result.total_pings
           /\ Len(jit_result.rtt_samples) = jit_result.successful_pings
           /\ jit_result.total_pings = Len(jit_log)

\* A run ends with a ping of each kind counted, one of them cut off by the
\* 5 s while its tunnel was open.
C22_Witness ==
    /\ jit_pc = "done"
    /\ jit_result.successful_pings >= 1
    /\ jit_result.failed_pings >= 1
    /\ jit_result.timeout_pings >= 1
    /\ \E k \in 1..Len(jit_log) :
           /\ jit_log[k].tunnel # 0
           /\ jit_log[k].error = Some(TimeoutWord)

(***************************************************************************)
(* Properties of the overall score (SpecMetrics).                          *)
(***************************************************************************)
\* The probes in the order of calculate_overall_score, with their weights in
\* hundredths.
Probes ==
    << [metrics |-> tcp_stability, weight |-> 25],
       [metrics |-> bandwidth, weight |-> 20],
       [metrics |-> connection_perf, weight |-> 20],
       [metrics |-> dns_stability, weight |-> 15],
       [metrics |-> network_jitter, weight |-> 20] >>

PresentProbes == { i \in 1..5 : Probes[i].metrics.is_some }

\* The whole number a score stands for.
ScoreOf(v) == CHOOSE k \in ScoreValues : F64FromInt(k) = v

\* Numerator and denominator of the weighted average in exact arithmetic.
ExactWeightedSum ==
    LET Term(i) == IF i \in PresentProbes
                   THEN ScoreOf(Probes[i].metrics.v) * Probes[i].weight ELSE 0
    IN  Term(1) + Term(2) + Term(3) + Term(4) + Term(5)

ExactTotalWeight ==
    LET Term(i) == IF i \in PresentProbes THEN Probes[i].weight ELSE 0
    IN  Term(1) + Term(2) + Term(3) + Term(4) + Term(5)

BigFromInt(n) == BigTrim(<<n % Base, n \div Base>>)

\* The f64 f is num / den up to a relative error of 2^-48.
WithinRoundingOf(f, num, den) ==
    LET a == BigMul(f.m, BigFromInt(den))
        b == BigShl(BigFromInt(num), 0 - f.e)
        diff == IF BigLess(a, b) THEN BigSub(b, a) ELSE BigSub(a, b)
    IN  ~BigLess(b, BigShl(diff, 48))

\* Two f64 that are equal or next to each other.
F64Near(a, b) ==
    \/ a = b
    \/ /\ a.m # <<>> /\ b.m # <<>> /\ a.e = b.e
       /\ BigAdd(a.m, <<1>>) = b.m \/ BigAdd(b.m, <<1>>) = a.m

OneHundred == F64FromInt(100)

\* What holds of the overall score whatever the number of probes: unset
\* exactly when no probe ran, else the weighted average over the present
\* probes up to rounding, and at most 100.
WeightedAverage ==
    /\ overall_score.is_some <=> PresentProbes # {}
    /\ overall_score.is_some =>
           /\ WithinRoundingOf(overall_score.v, ExactWeightedSum, ExactTotalWeight)
           /\ F64LessEq(overall_score.v, OneHundred)

\* C25 as stated: the overall score is the weighted average of the scores
\* of the probes present (weights 0.25, 0.20, 0.20, 0.15, 0.20 over the sum
\* of the present weights), lies in [0,100], is unset when no probe ran and
\* equals the single score when only one probe ran.
C25_OverallScore ==
    ms_pc = "done" =>
        /\ WeightedAverage
        /\ \A i \in 1..5 :
               PresentProbes = {i} => overall_score = Probes[i].metrics

\* C25, amended: the overall score is the weighted average of the scores of
\* the probes present up to the rounding of f64, is at most 100, is unset
\* when no probe ran, and when only one probe ran it is the single score or
\* the f64 next to it (the single score itself for TCP-stability, whose
\* weight 0.25 is a power of two).
C25_OverallScoreAmended ==
    ms_pc = "done" =>
        /\ WeightedAverage
        /\ \A i \in 1..5 :
               PresentProbes = {i} =>
                   /\ F64Near(overall_score.v, Probes[i].metrics.v)
                   /\ i = 1 => overall_score = Probes[i].metrics

\* Only the bandwidth probe ran, and score * 0.20 / 0.20 is not the score.
C25_Witness ==
    /\ ms_pc = "done"
    /\ PresentProbes = {2}
    /\ overall_score.is_some
    /\ overall_score # bandwidth

(***************************************************************************)
(* Properties of the command line program (SpecMain).                      *)
(***************************************************************************)
\* The run_*_test_parallel call in hand, or "" outside one.
CurrentPhase ==
    IF rt_pc \in {"phase", "inline", "spawn", "join_next"}
    THEN Phases(rt_command)[rt_phase] ELSE ""

\* No instance of the list runs or holds a tunnel.
AllStopped(instances) ==
    \A i \in 1..Len(instances) :
        instances[i].state # "running" /\ ~instances[i].tunnel

AllSucceeded(instances) ==
    /\ Len(instances) = rt_parallel
    /\ \A i \in 1..Len(instances) : instances[i].result = "Ok"

\* C26: run_tcp_stability_test_parallel starts N instances; it returns Ok
\* only when all N returned Ok; no failure of an instance is joined and
\* passed over; the Err it returns is the Err of an instance, and when it
\* returns a failure no sibling runs any more or holds a tunnel, then or
\* later.
C26_ParallelInstances ==
    /\ CurrentPhase = "tcp_stability" =>
           /\ Len(join_set) <= rt_parallel
           /\ rt_pc = "join_next" => Len(join_set) = rt_parallel
           /\ \A i \in 1..Len(join_set) :
                  join_set[i].state = "joined" => join_set[i].result = "Ok"
    /\ \A k \in 1..Len(rt_log) :
           rt_log[k].phase = "tcp_stability" =>
               /\ rt_log[k].result = "Ok" => AllSucceeded(rt_log[k].instances)
               /\ rt_log[k].result = "Err" =>
                      rt_log[k].instances[rt_log[k].from].result = "Err"
               /\ rt_log[k].result # "Ok" =>
                      /\ AllStopped(rt_log[k].instances)
                      /\ AllStopped(join_set)
                      /\ join_set = rt_log[k].instances

\* Of three instances one has succeeded, one has failed and the third was
\* cut off.
C26_Witness ==
    /\ rt_pc = "exited"
    /\ rt_parallel = 3
    /\ Len(rt_log) = 1
    /\ rt_log[1].phase = "tcp_stability"
    /\ rt_log[1].result = "Err"
    /\ \E i, j \in 1..3 :
           /\ join_set[i].state = "joined" /\ join_set[i].result = "Ok"
           /\ join_set[j].state = "aborted"

AllPhases == <<"tcp_stability", "bandwidth", "connection_perf">>

\* C27: `all` calls the TCP-stability, the bandwidth and the
\* connection-perf probes in this order, each after the calls before it
\* returned Ok with every instance Ok; a failure is the last thing that
\* happens and the exit code is then not 0; the exit code is 0 only after
\* three calls that returned Ok.
C27_AllInOrder ==
    rt_command = "all" =>
        /\ Len(rt_log) <= 3
        /\ \A k \in 1..Len(rt_log) : rt_log[k].phase = AllPhases[k]
        /\ CurrentPhase # "" =>
               /\ CurrentPhase = AllPhases[Len(rt_log) + 1]
               /\ \A k \in 1..Len(rt_log) :
                      /\ rt_log[k].result = "Ok"
                      /\ AllSucceeded(rt_log[k].instances)
        /\ \A k \in 1..Len(rt_log) :
               rt_log[k].result # "Ok" =>
                   /\ k = Len(rt_log)
                   /\ rt_pc = "exited"
                   /\ exit_code = 1
        /\ rt_pc = "exited" <=> exit_code \in {0, 1}
        /\ exit_code = 0 =>
               /\ Len(rt_log) = 3
               /\ \A k \in 1..3 : rt_log[k].result = "Ok"

\* The bandwidth phase of `all` fails after the TCP-stability phase
\* succeeded with two instances.
C27_Witness ==
    /\ rt_command = "all"
    /\ rt_parallel = 2
    /\ rt_pc = "exited"
    /\ Len(rt_log) = 2
    /\ rt_log[1].result = "Ok"
    /\ rt_log[2].result = "Err"
    /\ exit_code = 1

(***************************************************************************)
(* Properties of the TCP-stability echo server (SpecEcho).                 *)
(***************************************************************************)
\* A line PING-<n>, white space aside.
IsPingLine(line) ==
    /\ Len(TrimStr(line)) >= Len(PingPrefix)
    /\ SubSeq(TrimStr(line), 1, Len(PingPrefix)) = PingPrefix

\* The n of a line PING-<n>.
NumberOf(line) == SubSeq(TrimStr(line), Len(PingPrefix) + 1, Len(TrimStr(line)))

\* The records of the lines that were answered, in order.
Answered == SelectSeq(es_log, LAMBDA r : r.what = "reply")

\* C28: every line PING-<n> read is answered by PONG-<n> (unless the write
\* fails), the replies written are these and in the order of the lines, and
\* any other line is not answered and leaves the connection open: the
\* handler ends only when the client closes or the connection fails.
C28_EchoServer ==
    /\ \A k \in 1..Len(es_log) :
           es_log[k].line # <<>> =>
               IF IsPingLine(es_log[k].line)
               THEN es_log[k].what \in {"reply", "write_err"}
               ELSE es_log[k].what = "ignored"
    /\ Len(es_written) = Len(Answered)
    /\ \A j \in 1..Len(es_written) :
           es_written[j] = PongPrefix \o NumberOf(Answered[j].line) \o <<10>>
    /\ es_open <=> es_pc = "read_line"
    /\ es_pc = "done" =>
           es_log[Len(es_log)].what \in {"eof", "read_err", "write_err"}

(***************************************************************************)
(* Properties of the connection-perf server (SpecCpServer).                *)
(***************************************************************************)
\* C29: a connection the handler is done with has been answered with OK\n,
\* or with PONG\n when the client sent PING, and is closed, after one
\* message at most; so is one whose client closed at once.
C29_CpServer ==
    cs_pc = "done" /\ cs_return = "Ok" =>
        /\ ~cs_open
        /\ cs_written = IF cs_message = PingWord THEN PongReply ELSE OkReply
(***************************************************************************)
(* Termination of the TCP-stability probe (SpecTcpLive).  The runtime      *)
(* polls the probe's task whenever it can take a step: a timer that has    *)
(* been armed fires, an exchange the proxy ends is delivered.  Nothing     *)
(* obliges a proxy to answer, so ConnectHang's state has no step to take.  *)
(***************************************************************************)
SpecTcpLive == InitTcp /\ [][TcpNext]_vars /\ WF_vars(TcpNext)

\* The run has ended, or it has sent all the heartbeats the model follows.
ReturnedOrCapped ==
    \/ pc = "done"
    \/ result.total_heartbeats >= MaxHeartbeats

\* C31: a probe that is reconnecting eventually returns its result (the
\* retries are bounded by the outer deadline), whatever the proxy does.
C31_ReconnectTerminates == (pc = "reconnecting") ~> ReturnedOrCapped
(***************************************************************************)
(* Further properties of the bandwidth probe (SpecBw).                     *)
(***************************************************************************)
\* C32: the broken tunnel is closed before the CONNECT of the reconnect is
\* made, so the probe never holds more than one open tunnel.
C32_OneTunnel ==
    /\ bw_pc = "reconnect" => bw_open = 0
    /\ bw_open <= 1
\* C33: the probe returns an error only when the first CONNECT fails; once
\* the first CONNECT has succeeded every error (that of the write of the
\* setup request too) is handled in the probe, which returns a result.
C33_OnlyInitialConnectFatal ==
    bw_pc = "done" =>
        IF bw_stream = 0
        THEN /\ bw_return.kind \in ConnectErrors
             /\ bw_return.error = "connect"
             /\ bw_connects = 1
        ELSE bw_return = Ok
\* Upload samples that have no download sample.
UnmatchedUploads ==
    Len(bw_result.upload_samples) - Len(bw_result.download_samples)

\* C39: a read that passes its 5 s deadline or returns 0 bytes ends the
\* download without an error: the round completes with both samples (the
\* download sample with the bytes read so far, 0 maybe), no CONNECT is made
\* and connection_interruptions stays; only a write error or an error of
\* read leads to the reconnect; and outside a round the upload samples
\* without a download sample number between 0 and connection_interruptions.
C39_DownloadEnds ==
    [][ /\ (bw_pc = "download" /\ bw_io' \in {"read_0", "read_elapsed"})
               => /\ bw_pc' = "downloaded"
                  /\ bw_result' = bw_result
                  /\ bytes_read' = bytes_read
                  /\ bw_connects' = bw_connects
        /\ (bw_pc = "downloaded" /\ bw_pc' # bw_pc)
               => /\ bw_pc' = "sleep"
                  /\ Len(bw_result'.download_samples)
                         = Len(bw_result.download_samples) + 1
                  /\ bw_result'.download_samples[
                         Len(bw_result'.download_samples)].chunk_size = bytes_read
                  /\ bw_result'.upload_samples = bw_result.upload_samples
                  /\ bw_result'.connection_interruptions
                         = bw_result.connection_interruptions
                  /\ bw_connects' = bw_connects
        /\ (bw_pc' = "reconnect" /\ bw_pc # "reconnect")
               => /\ bw_io' \in {"write_err", "read_err"}
                  /\ bw_result'.connection_interruptions
                         = bw_result.connection_interruptions + 1
        /\ (bw_connects' # bw_connects /\ bw_pc # "connect")
               => bw_pc = "reconnect"
        /\ bw_pc' \notin {"download", "downloaded"}
               => /\ 0 <= UnmatchedUploads'
                  /\ UnmatchedUploads' <= bw_result'.connection_interruptions
      ]_vars

\* The first round ended in an error of read after its upload sample was
\* pushed; the second round, on the second tunnel, read nothing before the
\* deadline and is complete.
C39_Witness ==
    /\ bw_pc = "sleep"
    /\ bw_io = "read_elapsed"
    /\ bw_stream = 2
    /\ bw_result.connection_interruptions = 1
    /\ UnmatchedUploads = 1
    /\ Len(bw_result.download_samples) = 1
    /\ bw_result.download_samples[1].chunk_size = 0
(***************************************************************************)
(* Further properties of the SOCKS5 client (SpecSocks).                    *)
(***************************************************************************)
\* The proxy sent the whole BND.ADDR/BND.PORT of the reply's address type.
BndSent ==
    \/ reply[4] = 1 /\ Len(bnd) >= 6
    \/ reply[4] = 3 /\ Len(bnd) >= 1 /\ Len(bnd) >= 1 + bnd[1] + 2
    \/ reply[4] = 4 /\ Len(bnd) >= 18

\* BND.ADDR and BND.PORT of the reply.
BndAddr ==
    CASE reply[4] = 1 -> [ip |-> SubSeq(bnd, 1, 4),
                          port |-> bnd[5] * 256 + bnd[6]]
      [] reply[4] = 3 -> [ip |-> SubSeq(bnd, 2, 1 + bnd[1]),
                          port |-> bnd[2 + bnd[1]] * 256 + bnd[3 + bnd[1]]]
      [] reply[4] = 4 -> [ip |-> SubSeq(bnd, 1, 16),
                          port |-> bnd[17] * 256 + bnd[18]]

\* udp_associate went past the reply: it holds a relay address.
HasRelay ==
    \/ spc = "bind_udp"
    \/ spc = "done" /\ socks_result \in {Ok, Err("Connection", "Failed to bind UDP socket")}

\* C34: the reply to UDP ASSOCIATE is taken as the reply to CONNECT is: with
\* version 05 and REP 00 it is accepted for the address types 01, 03 and 04
\* and BND.ADDR/BND.PORT is the relay address; every other REP gives a
\* Socks5 error and no relay.
C34_UdpAssociateReply ==
    (command = "udp_associate" /\ spc \in {"bind_udp", "done"}
        /\ reply # <<>> /\ reply[1] = 5)
    => /\ reply[2] # 0 => ~HasRelay /\ socks_result.kind = "Socks5"
       /\ (reply[2] = 0 /\ BndSent)
              => /\ HasRelay
                 /\ RelayAddr(reply[4], bnd) = BndAddr
\* The greeting written by the client.
Offer == written'[1]

\* A username/password request (version 01) is among the bytes written.
CredentialsSent == \E i \in 1..Len(written') : written'[i][1] = 1

\* C40: the client offers method 02 only when both the username and the
\* password are set.  When it offered 00 alone and the proxy selects 02 the
\* handshake fails with a Socks5 error and no credential bytes are written;
\* when it offered 02 and the proxy selects 00 the handshake succeeds and the
\* credentials are not sent.
C40_MethodMismatch ==
    [][ /\ written' # <<>>
               => /\ Offer \in {<<5, 1, 0>>, <<5, 1, 2>>}
                  /\ Offer = <<5, 1, 2>>
                         => username.is_some /\ password.is_some
        /\ (method_response' = <<5, 2>> /\ Offer = <<5, 1, 0>>)
               => /\ written' = <<Offer>>
                  /\ ~CredentialsSent
                  /\ spc' \in {"authenticate", "done"}
                  /\ spc' = "done" => socks_result'.kind = "Socks5"
                  /\ spc = "authenticate" => spc' = "done"
        /\ (method_response' = <<5, 0>> /\ Offer = <<5, 1, 2>>)
               => /\ ~CredentialsSent
                  /\ auth_response' = <<>>
                  /\ spc' \notin {"authenticate", "read_auth"}
                  /\ spc = "read_method"
                         => spc' = "send_request" /\ socks_result' = Pending
      ]_vars

\* Without credentials the proxy selected 02: the call failed in authenticate
\* with nothing but the greeting written.
C40_Witness ==
    /\ ~HasCredentials
    /\ method_response = <<5, 2>>
    /\ spc = "done"
    /\ socks_result = Err("Socks5", "Username required for authentication")
    /\ written = << <<5, 1, 0>> >>
(***************************************************************************)
(* Further properties of the DNS probe (SpecDns).                          *)
(***************************************************************************)
\* The query of record q received, within the 5 s, a payload of 12 bytes or
\* more whose RCODE (the low 4 bits of its fourth byte) is 0.
GoodAnswer(q) ==
    /\ q.received.is_some
    /\ q.took < QueryTimeout
    /\ Len(q.received.v) >= 12
    /\ q.received.v[4] % 16 = 0

\* The durations of the successful queries among the records, in order.
OkTimes(log) == [k \in 1..Len(SelectSeq(log, LAMBDA q : q.kind = "Ok")) |->
                     SelectSeq(log, LAMBDA q : q.kind = "Ok")[k].took]

\* C35: a query is successful exactly when a payload of at least 12 bytes
\* with RCODE 0 was received within 5 s; a shorter payload or another RCODE
\* makes it a failed query, not a timeout; and the query-time samples, of
\* the run and of each domain, are the durations of the successful queries.
C35_DnsSuccess ==
    /\ \A k \in 1..Len(dns_log) :
           /\ dns_log[k].kind = "Ok" <=> GoodAnswer(dns_log[k])
           /\ (dns_log[k].received.is_some /\ ~GoodAnswer(dns_log[k]))
                  => dns_log[k].kind \notin {"Ok", "Timeout"}
    /\ successful_queries = Cardinality(Returned({"Ok"}))
    /\ timeout_queries = Cardinality(Returned({"Timeout"}))
    /\ failed_queries = Len(dns_log) - successful_queries - timeout_queries
    /\ all_query_times = OkTimes(dns_log)
    /\ \A d \in DOMAIN domain_results :
           domain_results[d].query_times
               = OkTimes(SelectSeq(dns_log, LAMBDA q : q.domain = d))

\* A run with an answer of RCODE 3 (a failed query), an answer of 11 bytes
\* (another) and a good answer after 1 s, the only sample.
C35_Witness ==
    /\ Len(dns_log) = 3
    /\ dns_log[1].received = Some(<<18, 52, 129, 131, 0, 1, 0, 0, 0, 0, 0, 0>>)
    /\ dns_log[2].received = Some(<<18, 52, 129, 128, 0, 1, 0, 0, 0, 0, 0>>)
    /\ dns_log[3].kind = "Ok"
    /\ failed_queries = 2
    /\ timeout_queries = 0
    /\ all_query_times = <<1000>>
(***************************************************************************)
(* Further properties of the jitter probe (SpecJit).                       *)
(***************************************************************************)
\* The pings that failed with a Timeout: the 1 s of the read or the 5 s of
\* the ping.
TimedOutPings ==
    { k \in 1..Len(jit_log) : jit_log[k].cause \in {"Timeout", "Elapsed"} }

\* The pings that failed with an error of another kind.
OtherFailedPings ==
    { k \in 1..Len(jit_log) :
          ~jit_log[k].success /\ jit_log[k].cause \notin {"Timeout", "Elapsed"} }

\* C36: timeout_pings counts the pings that failed with a Timeout and
\* failed_pings the pings that failed with an error of any other kind,
\* whatever the text of the error.
C36_ClassifiedByKind ==
    /\ timeout_pings = Cardinality(TimedOutPings)
    /\ failed_pings = Cardinality(OtherFailedPings)
(***************************************************************************)
(* Further properties of the TCP-stability probe (SpecTcp).                *)
(***************************************************************************)
\* The durations of the drops recorded.
DropDurations ==
    [k \in 1..Len(result.connection_drops) |-> result.connection_drops[k].duration]

\* C37: at the head of every iteration of the loop, and when the loop is
\* left, the tunnel slot is empty exactly when the probe is Broken,
\* reconnections is the number of ConnectionDrop records, total_downtime is
\* the sum of their durations, and failed_heartbeats exceeds reconnections
\* by 0 or 1.
C37_Bookkeeping ==
    pc \in {"loop", "done"} =>
        /\ ~stream <=> Broken
        /\ ~stream <=> connection_broken
        /\ result.reconnections = Len(result.connection_drops)
        /\ result.total_downtime = SumSeq(DropDurations)
        /\ 0 <= result.failed_heartbeats - result.reconnections
        /\ result.failed_heartbeats - result.reconnections <= 1

\* At the head of the loop after two failed heartbeats with one reconnection
\* and a failed reconnect between them: Broken, durations summed.
C37_Witness ==
    /\ pc = "loop"
    /\ Broken
    /\ connect_result = "Err"
    /\ result.failed_heartbeats = 2
    /\ result.reconnections = 1
    /\ result.total_downtime >= 1
(***************************************************************************)
(* Further properties of the command line program (SpecMain).              *)
(***************************************************************************)
\* C38: with --parallel 0 no probe instance is spawned or run, so no tunnel
\* is opened, every run_*_test_parallel call returns Ok, and the program,
\* once its configuration is read, exits with code 0; for each command.
C38_ParallelZero ==
    rt_parallel = 0 =>
        /\ join_set = <<>>
        /\ rt_done = <<>>
        /\ rt_pc \notin {"inline", "spawn"}
        /\ \A k \in 1..Len(rt_log) :
               /\ rt_log[k].result = "Ok"
               /\ rt_log[k].from = 0
               /\ rt_log[k].instances = <<>>
        /\ (rt_pc = "exited" /\ rt_config # "bad")
               => /\ exit_code = 0
                  /\ Len(rt_log) = Len(Phases(rt_command))
        /\ exit_code = 1 => rt_config = "bad"

\* `all` with --parallel 0 has exited: three calls, no instance, code 0.
C38_Witness ==
    /\ rt_parallel = 0
    /\ rt_command = "all"
    /\ rt_pc = "exited"
    /\ Len(rt_log) = 3
    /\ exit_code = 0
====
